---------------------------- MODULE Spec2Model ----------------------------
(***************************************************************************)
(* k8s-overcommit-operator: the Overcommit (singleton) reconciler, the      *)
(* OvercommitClass reconciler, the status publisher of the singleton and   *)
(* the equality kernel the reconcilers patch with.                         *)
(*                                                                         *)
(* Go values are modelled as follows.                                      *)
(*   map[string]string   [isNil |-> BOOLEAN, kv |-> function]              *)
(*   []Toleration        [isNil |-> BOOLEAN, items |-> sequence]           *)
(*   other slices        sequences (the code only takes their len)         *)
(*   *int64              <<>> for nil, <<n>> for a pointer to n            *)
(*   error               "none" | "notfound" | "conflict" | "other"        *)
(***************************************************************************)
EXTENDS Integers, Sequences, FiniteSets, TLC

(***************************************************************************)
(* Equality kernel                                                         *)
(***************************************************************************)

EmptyKV == [k \in {} |-> ""]

NilMap == [isNil |-> TRUE, kv |-> EmptyKV]

MkMap(f) == [isNil |-> FALSE, kv |-> f]

\* Go's "for _, e := range s { m[key(e)] = val(e) }": the last entry wins.
RECURSIVE BuildMap(_, _, _)
BuildMap(s, i, m) ==
    IF i > Len(s) THEN m
    ELSE BuildMap(s, i + 1,
                  [k \in (DOMAIN m) \cup {s[i].Name} |->
                      IF k = s[i].Name THEN s[i] ELSE m[k]])

envVarsEqual(a, b) ==
    IF Len(a) # Len(b) THEN FALSE
    ELSE LET mapA == BuildMap(a, 1, EmptyKV)
             mapB == BuildMap(b, 1, EmptyKV)
         IN \A key \in DOMAIN mapA :
               key \in DOMAIN mapB /\ mapA[key].Value = mapB[key].Value

\* Faulty variant: a nil map is taken for an empty one.
mapsEqualNilAsEmpty(a, b) ==
    IF Cardinality(DOMAIN a.kv) # Cardinality(DOMAIN b.kv) THEN FALSE
    ELSE \A key \in DOMAIN a.kv : key \in DOMAIN b.kv /\ a.kv[key] = b.kv[key]

mapsEqual(a, b) ==
    IF a.isNil /\ b.isNil THEN TRUE
    ELSE IF a.isNil \/ b.isNil THEN FALSE
    ELSE IF Cardinality(DOMAIN a.kv) # Cardinality(DOMAIN b.kv) THEN FALSE
    ELSE \A key \in DOMAIN a.kv : key \in DOMAIN b.kv /\ a.kv[key] = b.kv[key]

portsEqual(a, b) ==
    IF Len(a) # Len(b) THEN FALSE
    ELSE LET mapA == BuildMap(a, 1, EmptyKV)
             mapB == BuildMap(b, 1, EmptyKV)
         IN \A name \in DOMAIN mapA :
               /\ name \in DOMAIN mapB
               /\ mapA[name].Port = mapB[name].Port
               /\ mapA[name].TargetPort = mapB[name].TargetPort
               /\ mapA[name].Protocol = mapB[name].Protocol

slicesEqual(a, b) ==
    IF Len(a) # Len(b) THEN FALSE
    ELSE LET mapA == {a[i] : i \in 1..Len(a)}
             mapB == {b[i] : i \in 1..Len(b)}
         IN \A item \in mapA : item \in mapB

\* Faulty variant: the number of seconds is part of the key.
createTolerationKeyWithSeconds(tol) ==
    tol.Key \o "-" \o tol.Operator \o "-" \o tol.Value \o "-" \o tol.Effect
        \o "-" \o (IF tol.TolerationSeconds # <<>>
                   THEN ToString(tol.TolerationSeconds[1])
                   ELSE "seconds-nil")

\* strings.Join(parts, "-") over key, operator, value, effect and the
\* nil/non-nil bit of tolerationSeconds.
createTolerationKey(tol) ==
    tol.Key \o "-" \o tol.Operator \o "-" \o tol.Value \o "-" \o tol.Effect
        \o "-" \o (IF tol.TolerationSeconds # <<>> THEN "seconds-not-nil"
                                                     ELSE "seconds-nil")

\* Faulty variant: the lists are compared entry by entry, in order.
TolerationsEqualInOrder(a, b) ==
    IF a.isNil /\ b.isNil THEN TRUE
    ELSE IF a.isNil \/ b.isNil THEN FALSE
    ELSE IF Len(a.items) # Len(b.items) THEN FALSE
    ELSE \A j \in 1..Len(b.items) :
            createTolerationKey(b.items[j]) = createTolerationKey(a.items[j])

TolerationsEqual(a, b) ==
    IF a.isNil /\ b.isNil THEN TRUE
    ELSE IF a.isNil \/ b.isNil THEN FALSE
    ELSE IF Len(a.items) # Len(b.items) THEN FALSE
    ELSE LET tolerationMapA ==
                 {createTolerationKey(a.items[i]) : i \in 1..Len(a.items)}
         IN \A j \in 1..Len(b.items) :
               createTolerationKey(b.items[j]) \in tolerationMapA

\* One MutatingWebhook against another; TRUE when the current one must be
\* replaced.  Rules are compared by count only.
webhookChanged(updated, current) ==
    \/ updated.Name # current.Name
    \/ updated.Rules # current.Rules
    \/ IF updated.Service # <<>> /\ current.Service # <<>>
       THEN \/ updated.Service[1].Name # current.Service[1].Name
            \/ updated.Service[1].Namespace # current.Service[1].Namespace
       ELSE (updated.Service = <<>>) # (current.Service = <<>>)
    \/ Len(updated.AdmissionReviewVersions) # Len(current.AdmissionReviewVersions)
    \/ \E i \in 1..Len(updated.AdmissionReviewVersions) :
          \/ i > Len(current.AdmissionReviewVersions)
          \/ updated.AdmissionReviewVersions[i] # current.AdmissionReviewVersions[i]
    \/ Len(updated.MatchConditions) # Len(current.MatchConditions)
    \/ \E i \in 1..Len(updated.MatchConditions) :
          \/ i > Len(current.MatchConditions)
          \/ updated.MatchConditions[i].Name # current.MatchConditions[i].Name
          \/ updated.MatchConditions[i].Expression
                 # current.MatchConditions[i].Expression


(***************************************************************************)
(* Bounds of the model                                                     *)
(***************************************************************************)

\* External writes (drift, pre-creation, deletion) to managed objects.
MaxExternalWrites == 1

\* User requests on policy objects (create, edit, delete).
MaxUserOps == 2

ClassNames == {"gold"}

LegacyFinalizers == {"overcommit.finalizer", "webhook.finalizer"}

\* Finalizers an Overcommit written by an earlier release may carry.
InitialFinalizers == {legacy \cup {"backup.finalizer"} : legacy \in SUBSET LegacyFinalizers}

ExcludedNamespacesValues == {"", "kube-system"}

\* The two revisions of OvercommitClassReconciler.Reconcile under src/.
ClassRevisions == {"overcommitclass_controller.go", "part_001"}

ClassKinds == <<"Deployment", "Service", "Certificate", "MutatingWebhookConfiguration">>

ClassKindSet == {ClassKinds[i] : i \in 1..Len(ClassKinds)}

ClassFinalizer == "overcommitclass.finalizer"

DefaultLabel == "overcommit.inditex.dev/class"

(***************************************************************************)
(* State                                                                   *)
(***************************************************************************)

VARIABLES
    rev,          \* revision of the class Reconcile that is running
    overcommit,   \* the singleton Overcommit "cluster"
    classes,      \* OvercommitClass objects by name
    managed,      \* managed objects of each class, by class name and kind
    owned,        \* managed objects of the singleton, by resource type
    call,         \* the updateOvercommitStatusSafely call in progress
    extWrites,    \* external writes made so far
    userOps,      \* user requests made so far
    last,         \* what the most recent step did (history)
    kernel,       \* the comparison being made: helper and its two arguments
    reviews,      \* admission reviews in flight by class name; had two overlapped
    now           \* the clock metav1.Now() reads

vars == <<rev, overcommit, classes, managed, owned, call, extWrites, userOps, last,
         kernel, reviews, now>>

classVars == <<rev, classes, managed>>

singletonVars == <<owned, call>>

\* Faulty variant: not-found treated as the error it is.
IgnoreNotFoundNever(err) == err

\* client.IgnoreNotFound: nil for a not-found error, the error otherwise.
IgnoreNotFound(err) == IF err = "notfound" THEN "none" ELSE err

\* A controller owner reference: <<>> when there is none, <<uid>> otherwise.
NoOwner == <<>>

Absent == [exists |-> FALSE, owner |-> NoOwner, attrs |-> EmptyKV]

NoClass ==
    [exists |-> FALSE, uid |-> 0, deletionTimestamp |-> FALSE,
     finalizers |-> {}, ownerReferences |-> {},
     spec |-> [excludedNamespaces |-> ""]]

NoStatus == [Resources |-> <<>>, Conditions |-> <<>>]

NoOvercommit ==
    [exists |-> FALSE, name |-> "cluster", uid |-> 0, finalizers |-> {},
     spec |-> [label |-> DefaultLabel], status |-> NoStatus]

(***************************************************************************)
(* Resource templater of a class (internal/resources, not under src/)      *)
(***************************************************************************)

ImageFromEnv == "registry/repository:1.0.0"

CreateDeployment(name, class) ==
    [Image |-> ImageFromEnv,
     Env |-> <<[Name |-> "OVERCOMMIT_CLASS_NAME", Value |-> name]>>,
     TemplateAnnotations |-> NilMap,
     TemplateLabels |-> MkMap([k \in {"app"} |-> name]),
     NodeSelector |-> NilMap,
     Tolerations |-> [isNil |-> TRUE, items |-> <<>>]]

CreateService(name) ==
    [Selector |-> MkMap([k \in {"app"} |-> name]),
     Ports |-> <<[Name |-> "https", Port |-> 443, TargetPort |-> 9443,
                  Protocol |-> "TCP"]>>,
     Type |-> "ClusterIP",
     Annotations |-> NilMap,
     Labels |-> MkMap([k \in {"app"} |-> name])]

CreateCertificate(name) ==
    [DNSNames |-> <<name \o "-service.ns.svc",
                    name \o "-service.ns.svc.cluster.local">>,
     IssuerRef |-> [Name |-> "overcommit-selfsigned-issuer", Kind |-> "Issuer"],
     SecretName |-> name \o "-tls",
     Annotations |-> NilMap,
     Labels |-> NilMap]

\* The CEL predicate that keeps the excluded namespaces away from the webhook.
ExcludeExpression(excludedNamespaces) ==
    "!(object.metadata.namespace in [" \o excludedNamespaces \o "])"

CreateMutatingWebhookConfiguration(name, class, label) ==
    [Annotations |-> MkMap([k \in {"cert-manager.io/inject-ca-from"} |->
                               "ns/" \o name \o "-certificate"]),
     Labels |-> NilMap,
     Webhooks |-> <<[Name |-> name \o ".overcommit.inditex.dev",
                     Rules |-> 1,
                     Service |-> <<[Name |-> name \o "-service",
                                    Namespace |-> "ns"]>>,
                     AdmissionReviewVersions |-> <<"v1">>,
                     ObjectSelectorKey |-> label,
                     MatchConditions |->
                        <<[Name |-> "exclude-namespaces",
                           Expression |->
                              ExcludeExpression(class.spec.excludedNamespaces)]>>]>>]

ClassTemplate(name, class, label, kind) ==
    CASE kind = "Deployment" -> CreateDeployment(name, class)
      [] kind = "Service" -> CreateService(name)
      [] kind = "Certificate" -> CreateCertificate(name)
      [] kind = "MutatingWebhookConfiguration" ->
             CreateMutatingWebhookConfiguration(name, class, label)

(***************************************************************************)
(* controller-runtime helpers (library semantics the reconcilers rely on)  *)
(***************************************************************************)

\* controllerutil.CreateOrUpdate: Get; when absent, mutate the generated
\* object and Create it; when present, mutate the fetched object and Update
\* it only if the mutation changed it.  created is what the create path
\* builds, mutated what the mutate function makes of the fetched object.
CreateOrUpdate(current, created, mutated) ==
    IF ~current.exists THEN created ELSE mutated

\* What the create path of every mutate function builds: the full template
\* with the controller reference set.
NewObject(template, ownerUID) ==
    [exists |-> TRUE, owner |-> <<ownerUID>>, attrs |-> template]

\* Faulty variant: the controller reference is set on every pass.
PatchedAndOwned(current, attrs, updated, ownerUID) ==
    [current EXCEPT !.attrs = attrs, !.owner = <<ownerUID>>]

\* The tail of the update path: the controller reference is set only when
\* some owned attribute was replaced.
Patched(current, attrs, updated, ownerUID) ==
    IF updated THEN [current EXCEPT !.attrs = attrs, !.owner = <<ownerUID>>]
    ELSE current

(***************************************************************************)
(* OvercommitClassReconciler: mutate functions of the four managed objects *)
(***************************************************************************)

\* part_001: image, env, template annotations and labels, node selector,
\* tolerations.
MutateDeploymentFull(cur, upd, ownerUID) ==
    LET a == cur.attrs
        dImage == upd.Image # a.Image
        dEnv == ~envVarsEqual(upd.Env, a.Env)
        dAnn == ~mapsEqual(upd.TemplateAnnotations, a.TemplateAnnotations)
        dLab == ~mapsEqual(upd.TemplateLabels, a.TemplateLabels)
        dSel == ~mapsEqual(upd.NodeSelector, a.NodeSelector)
        dTol == ~TolerationsEqual(upd.Tolerations, a.Tolerations)
    IN Patched(cur,
               [Image |-> IF dImage THEN upd.Image ELSE a.Image,
                Env |-> IF dEnv THEN upd.Env ELSE a.Env,
                TemplateAnnotations |->
                    IF dAnn THEN upd.TemplateAnnotations ELSE a.TemplateAnnotations,
                TemplateLabels |->
                    IF dLab THEN upd.TemplateLabels ELSE a.TemplateLabels,
                NodeSelector |-> IF dSel THEN upd.NodeSelector ELSE a.NodeSelector,
                Tolerations |-> IF dTol THEN upd.Tolerations ELSE a.Tolerations],
               dImage \/ dEnv \/ dAnn \/ dLab \/ dSel \/ dTol, ownerUID)

\* overcommitclass_controller.go: image, env, template annotations and
\* labels only.
MutateDeploymentBasic(cur, upd, ownerUID) ==
    LET a == cur.attrs
        dImage == upd.Image # a.Image
        dEnv == ~envVarsEqual(upd.Env, a.Env)
        dAnn == ~mapsEqual(upd.TemplateAnnotations, a.TemplateAnnotations)
        dLab == ~mapsEqual(upd.TemplateLabels, a.TemplateLabels)
    IN Patched(cur,
               [a EXCEPT !.Image = IF dImage THEN upd.Image ELSE a.Image,
                         !.Env = IF dEnv THEN upd.Env ELSE a.Env,
                         !.TemplateAnnotations =
                             IF dAnn THEN upd.TemplateAnnotations
                             ELSE a.TemplateAnnotations,
                         !.TemplateLabels =
                             IF dLab THEN upd.TemplateLabels ELSE a.TemplateLabels],
               dImage \/ dEnv \/ dAnn \/ dLab, ownerUID)

MutateServiceFull(cur, upd, ownerUID) ==
    LET a == cur.attrs
        dSel == ~mapsEqual(upd.Selector, a.Selector)
        dPorts == ~portsEqual(upd.Ports, a.Ports)
        dType == upd.Type # a.Type
        dAnn == ~mapsEqual(upd.Annotations, a.Annotations)
        dLab == ~mapsEqual(upd.Labels, a.Labels)
    IN Patched(cur,
               [Selector |-> IF dSel THEN upd.Selector ELSE a.Selector,
                Ports |-> IF dPorts THEN upd.Ports ELSE a.Ports,
                Type |-> IF dType THEN upd.Type ELSE a.Type,
                Annotations |-> IF dAnn THEN upd.Annotations ELSE a.Annotations,
                Labels |-> IF dLab THEN upd.Labels ELSE a.Labels],
               dSel \/ dPorts \/ dType \/ dAnn \/ dLab, ownerUID)

MutateCertificateFull(cur, upd, ownerUID) ==
    LET a == cur.attrs
        dDNS == ~slicesEqual(upd.DNSNames, a.DNSNames)
        dIssuer == \/ upd.IssuerRef.Name # a.IssuerRef.Name
                   \/ upd.IssuerRef.Kind # a.IssuerRef.Kind
        dSecret == upd.SecretName # a.SecretName
        dAnn == ~mapsEqual(upd.Annotations, a.Annotations)
        dLab == ~mapsEqual(upd.Labels, a.Labels)
    IN Patched(cur,
               [DNSNames |-> IF dDNS THEN upd.DNSNames ELSE a.DNSNames,
                IssuerRef |-> IF dIssuer THEN upd.IssuerRef ELSE a.IssuerRef,
                SecretName |-> IF dSecret THEN upd.SecretName ELSE a.SecretName,
                Annotations |-> IF dAnn THEN upd.Annotations ELSE a.Annotations,
                Labels |-> IF dLab THEN upd.Labels ELSE a.Labels],
               dDNS \/ dIssuer \/ dSecret \/ dAnn \/ dLab, ownerUID)

MutateWebhookFull(cur, upd, ownerUID) ==
    LET a == cur.attrs
        dAnn == ~mapsEqual(upd.Annotations, a.Annotations)
        dLab == ~mapsEqual(upd.Labels, a.Labels)
        dHooks == IF Len(upd.Webhooks) # Len(a.Webhooks) THEN TRUE
                  ELSE \E i \in 1..Len(upd.Webhooks) :
                          webhookChanged(upd.Webhooks[i], a.Webhooks[i])
    IN Patched(cur,
               [Annotations |-> IF dAnn THEN upd.Annotations ELSE a.Annotations,
                Labels |-> IF dLab THEN upd.Labels ELSE a.Labels,
                Webhooks |-> IF dHooks THEN upd.Webhooks ELSE a.Webhooks],
               dAnn \/ dLab \/ dHooks, ownerUID)

\* "Only update ... if this is a new resource": an existing object is left
\* as fetched.
MutateCreateOnly(cur, upd, ownerUID) == cur

ClassMutate(revision, kind, cur, upd, ownerUID) ==
    IF revision = "part_001"
    THEN CASE kind = "Deployment" -> MutateDeploymentFull(cur, upd, ownerUID)
           [] kind = "Service" -> MutateServiceFull(cur, upd, ownerUID)
           [] kind = "Certificate" -> MutateCertificateFull(cur, upd, ownerUID)
           [] kind = "MutatingWebhookConfiguration" ->
                  MutateWebhookFull(cur, upd, ownerUID)
    ELSE CASE kind = "Deployment" -> MutateDeploymentBasic(cur, upd, ownerUID)
           [] OTHER -> MutateCreateOnly(cur, upd, ownerUID)

(***************************************************************************)
(* OvercommitClassReconciler.Reconcile                                     *)
(***************************************************************************)

\* Where one API call of a pass can be made to fail ("none": no failure).
ClassFaults ==
    {"none", "label", "get", "delDeployment", "delService", "delCertificate",
     "cleanupLabel", "delWebhook", "update", "getOvercommit", "Deployment",
     "Service", "Certificate", "MutatingWebhookConfiguration", "metrics",
     "status"}

\* utils.GetOvercommitLabel (internal/utils, not under src/): the label key
\* of the singleton, or an error when it cannot be read.  Whether it returns
\* an error or a default key when there is no singleton is decided outside
\* src/: failed is drawn both ways.
GetOvercommitLabelFails(oc, failed) == failed

\* utils.GetOvercommit (internal/utils, not under src/).
GetOvercommitFails(oc, failed) == failed \/ ~oc.exists

CleanupOrder ==
    <<"delDeployment", "delService", "delCertificate", "cleanupLabel", "delWebhook">>

CleanupStepOf(kind) ==
    CASE kind = "Deployment" -> 1
      [] kind = "Service" -> 2
      [] kind = "Certificate" -> 3
      [] kind = "MutatingWebhookConfiguration" -> 5

\* Faulty variant: cleanupResources that logs a failed Delete and carries on to
\* report success.
cleanupResourcesIgnoringErrors(objs, oc, fault) ==
    LET failAt == IF \E i \in 1..Len(CleanupOrder) : CleanupOrder[i] = fault
                  THEN CHOOSE i \in 1..Len(CleanupOrder) : CleanupOrder[i] = fault
                  ELSE Len(CleanupOrder) + 1
    IN [objs |-> [k \in ClassKindSet |->
                     IF CleanupStepOf(k) < failAt THEN Absent ELSE objs[k]],
        err |-> "none"]

\* Faulty variant: a Delete that finds no object ends the cleanup with the
\* not-found error.
cleanupResourcesNotFoundFails(objs, oc, fault) ==
    LET steps == {CleanupStepOf(kind) : kind \in {x \in ClassKindSet : ~objs[x].exists}}
                     \cup {i \in 1..Len(CleanupOrder) : CleanupOrder[i] = fault}
                     \cup {Len(CleanupOrder) + 1}
        failAt == CHOOSE i \in steps : \A j \in steps : i <= j
    IN [objs |-> [kind \in ClassKindSet |->
                     IF CleanupStepOf(kind) < failAt THEN Absent ELSE objs[kind]],
        err |-> IF failAt <= Len(CleanupOrder) THEN "other" ELSE "none"]

\* cleanupResources: Delete the deployment, the service, the certificate,
\* load the label, Delete the webhook configuration; not-found is tolerated,
\* any other error is returned at once.
cleanupResources(objs, oc, fault) ==
    LET failAt == IF \E i \in 1..Len(CleanupOrder) : CleanupOrder[i] = fault
                  THEN CHOOSE i \in 1..Len(CleanupOrder) : CleanupOrder[i] = fault
                  ELSE IF GetOvercommitLabelFails(oc, FALSE) THEN 4
                  ELSE Len(CleanupOrder) + 1
    IN [objs |-> [k \in ClassKindSet |->
                     IF CleanupStepOf(k) < failAt THEN Absent ELSE objs[k]],
        err |-> IF failAt <= Len(CleanupOrder) THEN "other" ELSE "none"]

OvercommitRef(oc) ==
    [Kind |-> "Overcommit", Name |-> "cluster", UID |-> oc.uid, Controller |-> TRUE]

\* controllerutil.SetControllerReference(overcommit, class): refused when
\* another object is the controller already; otherwise the reference to the
\* same owner (same kind and name) is replaced or the reference is added.
SetControllerReferenceFails(refs, oc) ==
    \E r \in refs : r.Controller /\ ~(r.Kind = "Overcommit" /\ r.Name = "cluster")

SetControllerReference(refs, oc) ==
    {r \in refs : ~(r.Kind = "Overcommit" /\ r.Name = "cluster")}
        \cup {OvercommitRef(oc)}

needsOwnerUpdate(class, oc) ==
    IF class.ownerReferences = {} THEN TRUE
    ELSE ~\E ownerRef \in class.ownerReferences :
             ownerRef.UID = oc.uid /\ ownerRef.Kind = "Overcommit"

UpsertStepOf(kind) == CHOOSE i \in 1..Len(ClassKinds) : ClassKinds[i] = kind

\* The four CreateOrUpdate calls in order; the one named by fault fails and
\* ends the pass, the ones before it have been applied.
ClassUpserts(revision, name, class, label, objs, fault) ==
    LET failAt == IF fault \in ClassKindSet THEN UpsertStepOf(fault)
                  ELSE Len(ClassKinds) + 1
    IN [objs |-> [k \in ClassKindSet |->
                     IF UpsertStepOf(k) < failAt
                     THEN CreateOrUpdate(
                              objs[k],
                              NewObject(ClassTemplate(name, class, label, k), class.uid),
                              ClassMutate(revision, k, objs[k],
                                          ClassTemplate(name, class, label, k),
                                          class.uid))
                     ELSE objs[k]],
        err |-> IF failAt <= Len(ClassKinds) THEN "other" ELSE "none"]

\* Faulty variant: a deletion check that looks at the finalizer instead of the
\* deletion timestamp.
IsBeingDeletedOnceFinalized(class) == ClassFinalizer \in class.finalizers

\* "!overcommitClass.ObjectMeta.DeletionTimestamp.IsZero()"
IsBeingDeleted(class) == class.deletionTimestamp

\* Faulty variant: the finalizer check always answers yes, so no pass stops
\* to add the finalizer.
ContainsFinalizerAlways(class) == TRUE

\* "controllerutil.ContainsFinalizer(overcommitClass, "overcommitclass.finalizer")"
ContainsFinalizer(class) == ClassFinalizer \in class.finalizers

Outcome(class, objs, err, requeue, phase) ==
    [class |-> class, objs |-> objs, err |-> err, requeue |-> requeue,
     phase |-> phase]

\* One pass of Reconcile for the class called name, with at most one failing
\* API call.  phase names the return statement that ended the pass.
ClassReconcile(revision, name, class, objs, oc, fault) ==
    IF GetOvercommitLabelFails(oc, fault = "label")
    THEN Outcome(class, objs, "other", "none", "label")
    ELSE IF fault = "get" THEN Outcome(class, objs, "other", "none", "get")
    ELSE IF ~class.exists
    THEN Outcome(class, objs, IgnoreNotFound("notfound"), "none", "notfound")
    ELSE IF IsBeingDeleted(class)
    THEN LET cleaned == cleanupResources(objs, oc, fault)
             finalizers == class.finalizers \ {ClassFinalizer}
         IN IF cleaned.err # "none"
            THEN Outcome(class, cleaned.objs, cleaned.err, "none", "cleanup")
            ELSE IF fault = "update"
            THEN Outcome(class, cleaned.objs, "other", "none", "removeFinalizer")
            \* The API server removes an object under deletion once its
            \* last finalizer is gone.
            ELSE Outcome(IF finalizers = {} /\ class.deletionTimestamp THEN NoClass
                         ELSE [class EXCEPT !.finalizers = finalizers],
                         cleaned.objs, "none", "none", "removeFinalizer")
    ELSE IF ~ContainsFinalizer(class)
    THEN IF fault = "update"
         THEN Outcome(class, objs, "other", "none", "addFinalizer")
         ELSE Outcome([class EXCEPT !.finalizers = @ \cup {ClassFinalizer}],
                      objs, "none", "none", "addFinalizer")
    ELSE IF GetOvercommitFails(oc, fault = "getOvercommit")
    THEN Outcome(class, objs, "other", "none", "getOvercommit")
    ELSE IF needsOwnerUpdate(class, oc)
    THEN IF SetControllerReferenceFails(class.ownerReferences, oc) \/ fault = "update"
         THEN Outcome(class, objs, "other", "none", "owner")
         ELSE Outcome([class EXCEPT !.ownerReferences =
                                       SetControllerReference(@, oc)],
                      objs, "none", "none", "owner")
    ELSE LET up == ClassUpserts(revision, name, class, oc.spec.label, objs, fault)
         IN IF up.err # "none"
            THEN Outcome(class, up.objs, up.err, "none", "upsert")
            \* "if getTotalClasses(...) != nil { return ctrl.Result{}, err }":
            \* err is the nil left by the last CreateOrUpdate.
            ELSE IF fault = "metrics"
            THEN Outcome(class, up.objs, "none", "none", "metrics")
            ELSE IF fault = "status"
            THEN Outcome(class, up.objs, "other", "none", "status")
            ELSE Outcome(class, up.objs, "none", "10s", "done")

(***************************************************************************)
(* Other writers of the class reconciler's objects                         *)
(***************************************************************************)

\* What another writer sets an owned attribute to: a value the equality
\* kernel tells from the template's.
DriftValue(attr) ==
    CASE attr = "Image" -> "registry/repository:0.9.0"
      [] attr = "Env" -> <<[Name |-> "OVERCOMMIT_CLASS_NAME", Value |-> "edited"]>>
      [] attr = "TemplateAnnotations" -> MkMap(EmptyKV)
      [] attr = "TemplateLabels" -> MkMap([k \in {"app"} |-> "edited"])
      [] attr = "NodeSelector" -> MkMap([k \in {"disk"} |-> "ssd"])
      [] attr = "Tolerations" ->
             [isNil |-> FALSE,
              items |-> <<[Key |-> "dedicated", Operator |-> "Equal",
                           Value |-> "infra", Effect |-> "NoSchedule",
                           TolerationSeconds |-> <<>>]>>]
      [] attr = "Selector" -> MkMap([k \in {"app"} |-> "edited"])
      [] attr = "Ports" -> <<[Name |-> "https", Port |-> 8443, TargetPort |-> 9443,
                              Protocol |-> "TCP"]>>
      [] attr = "Type" -> "NodePort"
      [] attr = "Annotations" -> MkMap([k \in {"edited-by"} |-> "someone"])
      [] attr = "Labels" -> MkMap([k \in {"edited-by"} |-> "someone"])
      [] attr = "DNSNames" -> <<"edited.ns.svc">>
      [] attr = "IssuerRef" -> [Name |-> "other-issuer", Kind |-> "ClusterIssuer"]
      [] attr = "SecretName" -> "edited-tls"
      [] attr = "Webhooks" -> <<>>

OwnedAttributes(kind) ==
    CASE kind = "Deployment" ->
             {"Image", "Env", "TemplateAnnotations", "TemplateLabels",
              "NodeSelector", "Tolerations"}
      [] kind = "Service" -> {"Selector", "Ports", "Type", "Annotations", "Labels"}
      [] kind = "Certificate" ->
             {"DNSNames", "IssuerRef", "SecretName", "Annotations", "Labels"}
      [] kind = "MutatingWebhookConfiguration" ->
             {"Annotations", "Labels", "Webhooks"}
      [] kind = "Issuer" -> {}

(***************************************************************************)
(* Steps of the class reconciler and of the writers around it              *)
(***************************************************************************)

\* Faulty variant: the generated objects carry names that do not depend on
\* the class, so that a pass meets the same objects whatever its class.
StoreManagedEverywhere(store, name, objs) == [d \in DOMAIN store |-> objs]

\* The four objects a pass creates, updates or deletes are those the
\* templater generates for the class under reconcile, named after it.
StoreManaged(store, name, objs) == [store EXCEPT ![name] = objs]

\* A fault is drawn only where the pass makes the call it fails.
ClassReconcilePass(c, fault) ==
    LET out == ClassReconcile(rev, c, classes[c], managed[c], overcommit, fault)
    IN /\ \/ fault = "none"
          \/ out # ClassReconcile(rev, c, classes[c], managed[c], overcommit, "none")
       /\ classes' = [classes EXCEPT ![c] = out.class]
       /\ managed' = StoreManaged(managed, c, out.objs)
       /\ last' = [op |-> "ClassReconcile", name |-> c, err |-> out.err,
                   requeue |-> out.requeue, phase |-> out.phase,
                   existed |-> {k \in ClassKindSet : managed[c][k].exists},
                   before |-> [exists |-> classes[c].exists,
                               deleting |-> classes[c].deletionTimestamp,
                               finalizers |-> classes[c].finalizers]]
       /\ UNCHANGED <<now, kernel, reviews, rev, overcommit, singletonVars, extWrites, userOps>>

InitialOwnerReferences ==
    {{},
     {[Kind |-> "Overcommit", Name |-> "cluster", UID |-> 100, Controller |-> FALSE]},
     {[Kind |-> "Tenant", Name |-> "team-a", UID |-> 200, Controller |-> TRUE]}}

UserCreateClass(c, excluded, refs) ==
    /\ userOps < MaxUserOps
    /\ excluded = ""
    /\ ~classes[c].exists
    /\ classes' = [classes EXCEPT ![c] =
                      [exists |-> TRUE, uid |-> userOps + 1,
                       deletionTimestamp |-> FALSE, finalizers |-> {},
                       ownerReferences |-> refs,
                       spec |-> [excludedNamespaces |-> excluded]]]
    /\ userOps' = userOps + 1
    /\ last' = [op |-> "UserCreateClass", name |-> c]
    /\ UNCHANGED <<now, kernel, reviews, rev, overcommit, managed, singletonVars, extWrites>>

UserEditClass(c, excluded) ==
    /\ userOps < MaxUserOps
    /\ classes[c].exists
    /\ ~classes[c].deletionTimestamp
    /\ classes[c].spec.excludedNamespaces # excluded
    /\ classes' = [classes EXCEPT ![c].spec.excludedNamespaces = excluded]
    /\ userOps' = userOps + 1
    /\ last' = [op |-> "UserEditClass", name |-> c]
    /\ UNCHANGED <<now, kernel, reviews, rev, overcommit, managed, singletonVars, extWrites>>

\* A delete request: the API server removes an object without finalizers
\* and only stamps the deletion time on one that has some.
UserDeleteClass(c) ==
    /\ userOps < MaxUserOps
    /\ classes[c].exists
    /\ ~classes[c].deletionTimestamp
    /\ classes' = [classes EXCEPT ![c] =
                      IF @.finalizers = {} THEN NoClass
                      ELSE [@ EXCEPT !.deletionTimestamp = TRUE]]
    /\ userOps' = userOps + 1
    /\ last' = [op |-> "UserDeleteClass", name |-> c]
    /\ UNCHANGED <<now, kernel, reviews, rev, overcommit, managed, singletonVars, extWrites>>

ExternalDrift(c, kind, attr) ==
    /\ extWrites < MaxExternalWrites
    /\ managed[c][kind].exists
    /\ attr \in OwnedAttributes(kind)
    /\ managed[c][kind].attrs[attr] # DriftValue(attr)
    /\ managed' = [managed EXCEPT ![c][kind].attrs[attr] = DriftValue(attr)]
    /\ extWrites' = extWrites + 1
    /\ last' = [op |-> "ExternalDrift", name |-> c]
    /\ UNCHANGED <<now, kernel, reviews, rev, overcommit, classes, singletonVars, userOps>>

\* Another writer creates a managed object of the class before the
\* reconciler does, in the template's shape and without owner reference.
ExternalPreCreate(c, kind) ==
    /\ extWrites < MaxExternalWrites
    /\ classes[c].exists
    /\ ~managed[c][kind].exists
    /\ managed' = [managed EXCEPT ![c][kind] =
                      [exists |-> TRUE, owner |-> NoOwner,
                       attrs |-> ClassTemplate(c, classes[c],
                                               overcommit.spec.label, kind)]]
    /\ extWrites' = extWrites + 1
    /\ last' = [op |-> "ExternalPreCreate", name |-> c]
    /\ UNCHANGED <<now, kernel, reviews, rev, overcommit, classes, singletonVars, userOps>>

ExternalDelete(c, kind) ==
    /\ extWrites < MaxExternalWrites
    /\ managed[c][kind].exists
    /\ managed' = [managed EXCEPT ![c][kind] = Absent]
    /\ extWrites' = extWrites + 1
    /\ last' = [op |-> "ExternalDelete", name |-> c]
    /\ UNCHANGED <<now, kernel, reviews, rev, overcommit, classes, singletonVars, userOps>>

InitClass ==
    /\ now = 1
    /\ rev \in ClassRevisions
    /\ overcommit = [NoOvercommit EXCEPT !.exists = TRUE, !.uid = 100]
    /\ classes = [c \in ClassNames |-> NoClass]
    /\ managed = [c \in ClassNames |-> [k \in ClassKindSet |-> Absent]]
    /\ owned = <<>>
    /\ call = <<>>
    /\ extWrites = 0
    /\ userOps = 0
    /\ kernel = <<>>
    /\ reviews = <<>>
    /\ last = [op |-> "init"]

NextClass ==
    \/ \E c \in ClassNames, fault \in ClassFaults : ClassReconcilePass(c, fault)
    \/ \E c \in ClassNames, excluded \in ExcludedNamespacesValues,
          refs \in InitialOwnerReferences : UserCreateClass(c, excluded, refs)
    \/ \E c \in ClassNames, excluded \in ExcludedNamespacesValues :
          UserEditClass(c, excluded)
    \/ \E c \in ClassNames : UserDeleteClass(c)
    \/ \E c \in ClassNames, kind \in ClassKindSet :
          \E attr \in OwnedAttributes(kind) : ExternalDrift(c, kind, attr)
    \/ \E c \in ClassNames, kind \in ClassKindSet : ExternalPreCreate(c, kind)
    \/ \E c \in ClassNames, kind \in ClassKindSet : ExternalDelete(c, kind)

SpecClass == InitClass /\ [][NextClass]_vars

(***************************************************************************)
(* Properties of the class reconciler                                      *)
(***************************************************************************)

ClassPassed(c) == last.op = "ClassReconcile" /\ last.name = c

HasFinalizer(class) == class.exists /\ ClassFinalizer \in class.finalizers

\* The pass that just ran took the finalizer off the class (the API server
\* then removes a class that has none left).
RemovedFinalizer(c) ==
    /\ ClassPassed(c)
    /\ last.before.exists /\ ClassFinalizer \in last.before.finalizers
    /\ ~HasFinalizer(classes[c])

AddedFinalizer(c) ==
    /\ ClassPassed(c)
    /\ last.before.exists /\ ClassFinalizer \notin last.before.finalizers
    /\ HasFinalizer(classes[c])

\* Owned attributes of a managed object of class c compare equal, by the
\* equality kernel, to the template generated from c.
EqualsTemplate(kind, attrs, upd) ==
    CASE kind = "Deployment" ->
             /\ upd.Image = attrs.Image
             /\ envVarsEqual(upd.Env, attrs.Env)
             /\ mapsEqual(upd.TemplateAnnotations, attrs.TemplateAnnotations)
             /\ mapsEqual(upd.TemplateLabels, attrs.TemplateLabels)
             /\ mapsEqual(upd.NodeSelector, attrs.NodeSelector)
             /\ TolerationsEqual(upd.Tolerations, attrs.Tolerations)
      [] kind = "Service" ->
             /\ mapsEqual(upd.Selector, attrs.Selector)
             /\ portsEqual(upd.Ports, attrs.Ports)
             /\ upd.Type = attrs.Type
             /\ mapsEqual(upd.Annotations, attrs.Annotations)
             /\ mapsEqual(upd.Labels, attrs.Labels)
      [] kind = "Certificate" ->
             /\ slicesEqual(upd.DNSNames, attrs.DNSNames)
             /\ upd.IssuerRef.Name = attrs.IssuerRef.Name
             /\ upd.IssuerRef.Kind = attrs.IssuerRef.Kind
             /\ upd.SecretName = attrs.SecretName
             /\ mapsEqual(upd.Annotations, attrs.Annotations)
             /\ mapsEqual(upd.Labels, attrs.Labels)
      [] kind = "MutatingWebhookConfiguration" ->
             /\ mapsEqual(upd.Annotations, attrs.Annotations)
             /\ mapsEqual(upd.Labels, attrs.Labels)
             /\ Len(upd.Webhooks) = Len(attrs.Webhooks)
             /\ \A i \in 1..Len(upd.Webhooks) :
                   ~webhookChanged(upd.Webhooks[i], attrs.Webhooks[i])
      [] kind = "Issuer" -> upd = attrs

ClassConverged(c) ==
    \A k \in ClassKindSet :
        /\ managed[c][k].exists
        /\ managed[c][k].owner = <<classes[c].uid>>
        /\ EqualsTemplate(k, managed[c][k].attrs,
                          ClassTemplate(c, classes[c], overcommit.spec.label, k))

\* A pass on c with every API call succeeding runs to its end and changes
\* neither c nor any of its managed objects.
ClassQuiescent(c) ==
    LET out == ClassReconcile(rev, c, classes[c], managed[c], overcommit, "none")
    IN /\ out.err = "none" /\ out.phase = "done"
       /\ out.class = classes[c]
       /\ out.objs = managed[c]

\* C1 (as claimed): once Reconcile passes on a live class p change nothing
\* any more, p's Deployment, Service, Certificate and
\* MutatingWebhookConfiguration exist, have p as controller owner and have
\* every owned attribute equal to the template, also when another writer
\* had modified or pre-created them.
C1_QuiescentMeansConverged ==
    \A c \in ClassNames :
        (/\ classes[c].exists /\ ~classes[c].deletionTimestamp
         /\ overcommit.exists
         /\ ClassQuiescent(c))
        => ClassConverged(c)

\* C2: the finalizer leaves a class only in a pass on a class with a
\* deletion timestamp whose cleanupResources returned success, with the
\* four managed objects gone; a pass whose cleanup failed returns the error
\* and leaves the finalizer on the class.
C2_FinalizerRemovedOnlyAfterCleanup ==
    \A c \in ClassNames :
        /\ RemovedFinalizer(c) =>
              /\ last.before.deleting
              /\ last.err = "none"
              /\ \A k \in ClassKindSet : ~managed[c][k].exists
        /\ (ClassPassed(c) /\ last.phase = "cleanup") =>
              /\ last.err = "other"
              /\ HasFinalizer(classes[c])
              /\ classes[c].deletionTimestamp

C2_Witness ==
    \E c \in ClassNames :
        /\ RemovedFinalizer(c)
        /\ last.existed = ClassKindSet

\* Absent -> Present -> DeletionPending -> Gone
FinalizerState(class) ==
    IF ~class.exists THEN 3
    ELSE IF class.deletionTimestamp THEN 2
    ELSE IF ClassFinalizer \in class.finalizers THEN 1
    ELSE 0

\* C3: the finalizer state of one class object never moves backwards, the
\* reconciler adds the finalizer only to a class without deletion
\* timestamp and removes it only from a class with one.
C3_FinalizerStateMovesForward ==
    [][\A c \in ClassNames :
          /\ (classes[c].exists /\ (classes'[c].exists =>
                                       classes'[c].uid = classes[c].uid))
                => FinalizerState(classes'[c]) >= FinalizerState(classes[c])
          /\ (last'.op = "ClassReconcile" /\ last'.name = c) =>
                /\ (~HasFinalizer(classes[c]) /\ HasFinalizer(classes'[c]))
                      => (~classes[c].deletionTimestamp
                          /\ ~classes'[c].deletionTimestamp)
                /\ (HasFinalizer(classes[c]) /\ ~HasFinalizer(classes'[c]))
                      => classes[c].deletionTimestamp]_vars

C3_Witness ==
    \E c \in ClassNames :
        /\ AddedFinalizer(c)
        /\ ~last.before.deleting
        /\ FinalizerState(classes[c]) = 1

MatchConditionsOf(attrs) ==
    [i \in 1..Len(attrs.Webhooks) |->
        [j \in 1..Len(attrs.Webhooks[i].MatchConditions) |->
            [Name |-> attrs.Webhooks[i].MatchConditions[j].Name,
             Expression |-> attrs.Webhooks[i].MatchConditions[j].Expression]]]

\* C5 (as claimed): a pass that completes without error leaves an existing
\* MutatingWebhookConfiguration with the matchConditions templated from the
\* class's current excludedNamespaces.
C5_MatchConditionsFollowExcludedNamespaces ==
    \A c \in ClassNames :
        (/\ ClassPassed(c) /\ last.err = "none"
         /\ last.phase \in {"done", "metrics"}
         /\ "MutatingWebhookConfiguration" \in last.existed)
        => MatchConditionsOf(managed[c]["MutatingWebhookConfiguration"].attrs)
             = MatchConditionsOf(
                   ClassTemplate(c, classes[c], overcommit.spec.label,
                                 "MutatingWebhookConfiguration"))

(***************************************************************************)
(* Singleton Overcommit: managed resources and their templates             *)
(* (internal/resources, not under src/)                                    *)
(***************************************************************************)

\* The order of the CreateOrUpdate calls in OvercommitReconciler.Reconcile.
UpsertOrder ==
    <<"issuer",
      "overcommitclass-certificate", "overcommitclass-deployment",
      "overcommitclass-service", "overcommitclass-webhook",
      "pod-certificate", "pod-deployment", "pod-service", "pod-webhook",
      "overcommitclass-controller">>

\* The order of the rows in the status.
resourceTypes ==
    <<"issuer",
      "overcommitclass-deployment", "overcommitclass-service",
      "overcommitclass-certificate", "overcommitclass-webhook",
      "pod-deployment", "pod-service", "pod-certificate", "pod-webhook",
      "overcommitclass-controller">>

ResourceTypeSet == {resourceTypes[i] : i \in 1..Len(resourceTypes)}

KindOfType(t) ==
    CASE t = "issuer" -> "Issuer"
      [] t \in {"overcommitclass-deployment", "pod-deployment",
                "overcommitclass-controller"} -> "Deployment"
      [] t \in {"overcommitclass-service", "pod-service"} -> "Service"
      [] t \in {"overcommitclass-certificate", "pod-certificate"} -> "Certificate"
      [] t \in {"overcommitclass-webhook", "pod-webhook"} ->
             "MutatingWebhookConfiguration"

ComponentOfType(t) ==
    CASE t = "issuer" -> "overcommit"
      [] t \in {"overcommitclass-deployment", "overcommitclass-service",
                "overcommitclass-certificate", "overcommitclass-webhook"} ->
             "overcommitclass-validator"
      [] t \in {"pod-deployment", "pod-service", "pod-certificate",
                "pod-webhook"} -> "pod-webhook"
      [] t = "overcommitclass-controller" -> "overcommitclass-controller"

GenerateIssuer == [SelfSigned |-> TRUE]

\* The class-validating webhook carries no exclusion and no label; the pod
\* webhook selects on the policy label.
SingletonTemplate(t, oc, label) ==
    LET name == ComponentOfType(t)
    IN CASE KindOfType(t) = "Issuer" -> GenerateIssuer
         [] KindOfType(t) = "Deployment" -> CreateDeployment(name, oc)
         [] KindOfType(t) = "Service" -> CreateService(name)
         [] KindOfType(t) = "Certificate" -> CreateCertificate(name)
         [] KindOfType(t) = "MutatingWebhookConfiguration" ->
                CreateMutatingWebhookConfiguration(
                    name, [spec |-> [excludedNamespaces |-> ""]],
                    IF t = "pod-webhook" THEN label ELSE "")

ResourceName(t) == ComponentOfType(t) \o "/" \o KindOfType(t)

(***************************************************************************)
(* OvercommitReconciler: status of the singleton (overcommit/utils.go)     *)
(***************************************************************************)

\* Faulty variant: a row that reports ready whatever the read returned.
checkResourceStatusAlwaysReady(resourceType, readable) ==
    [Name |-> ResourceName(resourceType), Ready |-> TRUE]

\* checkResourceStatus: "ready := err == nil" for the Get of the object.
checkResourceStatus(resourceType, readable) ==
    [Name |-> ResourceName(resourceType), Ready |-> resourceType \in readable]

\* Faulty variant: only the resources whose read succeeded get a row.
resourceStatusSliceOfReadable(readable) ==
    LET RECURSIVE rowsFrom(_)
        rowsFrom(i) ==
            IF i > Len(resourceTypes) THEN <<>>
            ELSE IF resourceTypes[i] \in readable
            THEN <<checkResourceStatus(resourceTypes[i], readable)>> \o rowsFrom(i + 1)
            ELSE rowsFrom(i + 1)
    IN rowsFrom(1)

\* The rows in the order of resourceTypes.
resourceStatusSlice(readable) ==
    [i \in 1..Len(resourceTypes) |-> checkResourceStatus(resourceTypes[i], readable)]

readyCount(rows) == Cardinality({i \in 1..Len(rows) : rows[i].Ready})

ResourcesReadyCondition(rows) ==
    IF \A i \in 1..Len(rows) : rows[i].Ready
    THEN [Type |-> "ResourcesReady", Status |-> "True",
          Reason |-> "AllResourcesReady",
          Message |-> "All " \o ToString(Len(rows)) \o " managed resources are ready",
          LastTransitionTime |-> now]
    ELSE [Type |-> "ResourcesReady", Status |-> "False",
          Reason |-> "ResourcesNotReady",
          Message |-> ToString(readyCount(rows)) \o " of " \o ToString(Len(rows))
                          \o " resources are ready",
          LastTransitionTime |-> now]

\* Faulty variant: every replacement of the stored condition restamps it.
setConditionRestamping(conditions, newCondition) ==
    IF \E i \in 1..Len(conditions) : conditions[i].Type = newCondition.Type
    THEN LET i == CHOOSE j \in 1..Len(conditions) :
                      /\ conditions[j].Type = newCondition.Type
                      /\ \A k \in 1..(j - 1) : conditions[k].Type # newCondition.Type
         IN IF \/ conditions[i].Status # newCondition.Status
               \/ conditions[i].Reason # newCondition.Reason
               \/ conditions[i].Message # newCondition.Message
            THEN [conditions EXCEPT
                     ![i] = [newCondition EXCEPT !.LastTransitionTime = now]]
            ELSE conditions
    ELSE Append(conditions, [newCondition EXCEPT !.LastTransitionTime = now])

\* setCondition: a new condition without time (0, IsZero) is stamped with
\* the clock; the first condition of the same type is replaced when its
\* status, reason or message differs and kept otherwise, the replacement
\* taking the clock as its transition time when the status differs and the
\* stored transition time when it does not; a new type is appended.
setCondition(conditions, newCondition) ==
    LET stamped == IF newCondition.LastTransitionTime = 0
                   THEN [newCondition EXCEPT !.LastTransitionTime = now]
                   ELSE newCondition
    IN IF \E i \in 1..Len(conditions) : conditions[i].Type = stamped.Type
       THEN LET i == CHOOSE j \in 1..Len(conditions) :
                         /\ conditions[j].Type = stamped.Type
                         /\ \A k \in 1..(j - 1) : conditions[k].Type # stamped.Type
            IN IF \/ conditions[i].Status # stamped.Status
                  \/ conditions[i].Reason # stamped.Reason
                  \/ conditions[i].Message # stamped.Message
               THEN [conditions EXCEPT
                        ![i] = [stamped EXCEPT
                                   !.LastTransitionTime =
                                       IF conditions[i].Status # stamped.Status
                                       THEN now
                                       ELSE conditions[i].LastTransitionTime]]
               ELSE conditions
       ELSE Append(conditions, stamped)

\* updateOvercommitStatus up to the API call: the status it puts on the
\* object it was given; readable is the set of resource types whose Get
\* returned no error.
updateOvercommitStatus(overcommitObject, readable) ==
    LET rows == resourceStatusSlice(readable)
    IN [overcommitObject EXCEPT
           !.status = [Resources |-> rows,
                       Conditions |-> setCondition(@.Conditions,
                                                   ResourcesReadyCondition(rows))]]

maxRetries == 5

\* Faulty variant: a loop that retries whatever the error was.
StatusAttemptRetryAll(attempt, getErr, updErr) ==
    IF getErr = "notfound" THEN [returns |-> TRUE, err |-> "none", backoff |-> 0]
    ELSE IF getErr # "none" THEN [returns |-> TRUE, err |-> getErr, backoff |-> 0]
    ELSE IF updErr = "none" THEN [returns |-> TRUE, err |-> "none", backoff |-> 0]
    ELSE IF attempt = maxRetries - 1
    THEN [returns |-> TRUE, err |-> updErr, backoff |-> 0]
    ELSE [returns |-> FALSE, err |-> updErr, backoff |-> (2 ^ attempt) * 50]

\* Faulty variant: a backoff that grows by 50 ms an attempt instead of doubling.
StatusAttemptLinearBackoff(attempt, getErr, updErr) ==
    IF getErr = "notfound" THEN [returns |-> TRUE, err |-> "none", backoff |-> 0]
    ELSE IF getErr # "none" THEN [returns |-> TRUE, err |-> getErr, backoff |-> 0]
    ELSE IF updErr = "none" THEN [returns |-> TRUE, err |-> "none", backoff |-> 0]
    ELSE IF attempt = maxRetries - 1
    THEN [returns |-> TRUE, err |-> updErr, backoff |-> 0]
    ELSE IF updErr = "conflict"
    THEN [returns |-> FALSE, err |-> updErr, backoff |-> (attempt + 1) * 50]
    ELSE [returns |-> TRUE, err |-> updErr, backoff |-> 0]

\* The body of the retry loop after its two calls: whether the loop returns,
\* with what error, and the milliseconds it sleeps before the next attempt.
StatusAttempt(attempt, getErr, updErr) ==
    IF getErr = "notfound" THEN [returns |-> TRUE, err |-> "none", backoff |-> 0]
    ELSE IF getErr # "none" THEN [returns |-> TRUE, err |-> getErr, backoff |-> 0]
    ELSE IF updErr = "none" THEN [returns |-> TRUE, err |-> "none", backoff |-> 0]
    ELSE IF attempt = maxRetries - 1
    THEN [returns |-> TRUE, err |-> updErr, backoff |-> 0]
    ELSE IF updErr = "conflict"
    THEN [returns |-> FALSE, err |-> updErr, backoff |-> (2 ^ attempt) * 50]
    ELSE [returns |-> TRUE, err |-> updErr, backoff |-> 0]

\* No updateOvercommitStatusSafely call in progress.  In a call, attempt
\* counts from 0, fresh is the object the Get of attempt fetchedAt returned,
\* stale tells that the cluster's object has a newer resourceVersion, slept
\* is the last backoff in milliseconds and pass the Reconcile pass that made
\* the call.
Idle ==
    [pc |-> "idle", attempt |-> 0, fresh |-> NoOvercommit, fetchedAt |-> 0,
     stale |-> FALSE, slept |-> 0, pass |-> [op |-> "none"]]

\* Faulty variant: the object is fetched before the loop and reused by every
\* attempt.
FetchOnce(c, oc) ==
    IF c.attempt = 0
    THEN [c EXCEPT !.pc = "update", !.fresh = oc, !.fetchedAt = c.attempt,
                   !.stale = FALSE]
    ELSE [c EXCEPT !.pc = "update"]

\* "freshOvercommit := &overcommit.Overcommit{}; r.Get(ctx, clusterKey,
\* freshOvercommit)" at the top of every attempt.
FetchFresh(c, oc) ==
    [c EXCEPT !.pc = "update", !.fresh = oc, !.fetchedAt = c.attempt,
              !.stale = FALSE]

(***************************************************************************)
(* OvercommitReconciler.Reconcile                                          *)
(***************************************************************************)

\* Where one API call of a pass can be made to fail, and how.
SingletonFaults ==
    [at : {"none", "label", "get", "update"}, err : {"other"}]
        \cup [at : ResourceTypeSet, err : {"other", "conflict"}]

NoFault == [at |-> "none", err |-> "other"]

\* Faulty variant: a migration step that takes every finalizer off.
RemoveAllFinalizers(finalizers) == {}

\* controllerutil.RemoveFinalizer for each of the legacy names.
RemoveLegacyFinalizers(finalizers) == finalizers \ LegacyFinalizers

\* Faulty variant: a migration step that always persists and requeues.
finalizerRemovedAlways(finalizers) == TRUE

\* finalizerRemoved: some legacy name was on the fetched object.
finalizerRemoved(finalizers) == finalizers \cap LegacyFinalizers # {}

\* The mutate function of each CreateOrUpdate: the three deployments patch
\* six attributes of an existing object, every other mutate function acts
\* on a new object only.
SingletonMutate(t, cur, upd, ownerUID) ==
    IF KindOfType(t) = "Deployment" THEN MutateDeploymentFull(cur, upd, ownerUID)
    ELSE MutateCreateOnly(cur, upd, ownerUID)

UpsertIndex(t) == CHOOSE i \in 1..Len(UpsertOrder) : UpsertOrder[i] = t

\* Faulty variant: a conflict on the pod webhook configuration ends the pass
\* like any other error.
SingletonUpsertsConflictAborts(oc, label, objs, fault) ==
    LET failAt == IF fault.at \in ResourceTypeSet THEN UpsertIndex(fault.at)
                  ELSE Len(UpsertOrder) + 1
    IN [objs |-> [t \in ResourceTypeSet |->
                     IF UpsertIndex(t) < failAt
                     THEN CreateOrUpdate(
                              objs[t],
                              NewObject(SingletonTemplate(t, oc, label), oc.uid),
                              SingletonMutate(t, objs[t],
                                              SingletonTemplate(t, oc, label),
                                              oc.uid))
                     ELSE objs[t]],
        err |-> IF failAt <= Len(UpsertOrder) THEN fault.err ELSE "none"]

\* Faulty variant: the error of a failed CreateOrUpdate is returned only
\* after the remaining objects have been upserted.
SingletonUpsertsKeepGoing(oc, label, objs, fault) ==
    LET failAt == IF fault.at \in ResourceTypeSet THEN UpsertIndex(fault.at)
                  ELSE Len(UpsertOrder) + 1
        swallowed == fault.at = "pod-webhook" /\ fault.err = "conflict"
    IN [objs |-> [t \in ResourceTypeSet |->
                     IF UpsertIndex(t) # failAt
                     THEN CreateOrUpdate(
                              objs[t],
                              NewObject(SingletonTemplate(t, oc, label), oc.uid),
                              SingletonMutate(t, objs[t],
                                              SingletonTemplate(t, oc, label),
                                              oc.uid))
                     ELSE objs[t]],
        err |-> IF failAt <= Len(UpsertOrder) /\ ~swallowed THEN fault.err
                ELSE "none"]

\* The ten CreateOrUpdate calls in order.  The failing one ends the pass,
\* except a conflict on the pod webhook configuration, which is logged and
\* passed over.
SingletonUpserts(oc, label, objs, fault) ==
    LET failAt == IF fault.at \in ResourceTypeSet THEN UpsertIndex(fault.at)
                  ELSE Len(UpsertOrder) + 1
        swallowed == fault.at = "pod-webhook" /\ fault.err = "conflict"
        applied(t) == \/ UpsertIndex(t) < failAt
                      \/ swallowed /\ UpsertIndex(t) > failAt
    IN [objs |-> [t \in ResourceTypeSet |->
                     IF applied(t)
                     THEN CreateOrUpdate(
                              objs[t],
                              NewObject(SingletonTemplate(t, oc, label), oc.uid),
                              SingletonMutate(t, objs[t],
                                              SingletonTemplate(t, oc, label),
                                              oc.uid))
                     ELSE objs[t]],
        err |-> IF failAt <= Len(UpsertOrder) /\ ~swallowed THEN fault.err
                ELSE "none"]

SingletonOutcome(oc, objs, err, requeue, phase, updateCalled) ==
    [oc |-> oc, objs |-> objs, err |-> err, requeue |-> requeue,
     phase |-> phase, updateCalled |-> updateCalled]

\* Reconcile up to the call of updateOvercommitStatusSafely, with at most
\* one failing API call.  phase names the return statement that ended the
\* pass, "upserted" that the pass goes on to the status update.
SingletonReconcile(oc, objs, fault) ==
    IF GetOvercommitLabelFails(oc, fault.at = "label")
    THEN SingletonOutcome(oc, objs, "other", "none", "label", FALSE)
    ELSE IF fault.at = "get"
    THEN SingletonOutcome(oc, objs, "other", "none", "get", FALSE)
    ELSE IF ~oc.exists
    THEN SingletonOutcome(oc, objs, IgnoreNotFound("notfound"), "none",
                          "notfound", FALSE)
    ELSE IF finalizerRemoved(oc.finalizers)
    THEN IF fault.at = "update"
         THEN SingletonOutcome(oc, objs, "other", "none", "migration", TRUE)
         ELSE SingletonOutcome(
                  [oc EXCEPT !.finalizers = RemoveLegacyFinalizers(@)],
                  objs, "none", "1s", "migration", TRUE)
    ELSE LET up == SingletonUpserts(oc, oc.spec.label, objs, fault)
         IN IF up.err # "none"
            THEN SingletonOutcome(oc, up.objs, up.err, "none", "upsert", FALSE)
            ELSE SingletonOutcome(oc, up.objs, "none", "none", "upserted", FALSE)

(***************************************************************************)
(* Steps of the singleton reconciler and of the writers around it          *)
(***************************************************************************)

\* Faulty variant: a pass that hands the error of the status update to the
\* framework.
ReturnedWithStatusError(pass, statusErr, attempts, readable, statusWritten) ==
    [pass EXCEPT !.phase = "done",
                 !.err = statusErr,
                 !.requeue = IF statusErr = "none" THEN "10s" ELSE "none",
                 !.statusErr = statusErr, !.attempts = attempts,
                 !.readable = readable, !.statusWritten = statusWritten]

\* What the pass reports when it returns after the status update.
Returned(pass, statusErr, attempts, readable, statusWritten) ==
    [pass EXCEPT !.phase = "done", !.requeue = "10s", !.statusErr = statusErr,
                 !.attempts = attempts, !.readable = readable,
                 !.statusWritten = statusWritten]

\* What a pass is remembered by: its result, the Overcommit and the managed
\* objects it found, the managed objects it wrote and, once it has returned,
\* what became of its status update.  failed is the CreateOrUpdate that
\* returned an error in the pass, if one did.
PassRecord(out, oc, objs, fault) ==
    [op |-> "Reconcile", err |-> out.err, requeue |-> out.requeue,
     phase |-> out.phase, updateCalled |-> out.updateCalled,
     failed |-> IF fault.at \in ResourceTypeSet
                   /\ out.phase \in {"upsert", "upserted"}
                THEN fault ELSE NoFault,
     before |-> [exists |-> oc.exists, finalizers |-> oc.finalizers,
                 name |-> oc.name, uid |-> oc.uid],
     existed |-> {t \in ResourceTypeSet : objs[t].exists},
     wrote |-> {t \in ResourceTypeSet : out.objs[t] # objs[t]},
     statusErr |-> "none", attempts |-> 0, readable |-> {},
     statusWritten |-> FALSE]

\* The pass makes the call that fault fails.
FaultApplies(oc, fault) ==
    CASE fault.at = "none" -> TRUE
      [] fault.at \in {"label", "get"} -> TRUE
      [] fault.at = "update" -> oc.exists /\ finalizerRemoved(oc.finalizers)
      [] OTHER -> oc.exists /\ ~finalizerRemoved(oc.finalizers)

\* Reconcile from its start to its return or, when every upsert succeeded,
\* to the call of updateOvercommitStatusSafely.  A fault is drawn only where
\* the pass makes the call it fails.
SingletonPass(fault) ==
    LET out == SingletonReconcile(overcommit, owned, fault)
        pass == PassRecord(out, overcommit, owned, fault)
    IN /\ call.pc = "idle"
       /\ FaultApplies(overcommit, fault)
       /\ overcommit' = out.oc
       /\ owned' = out.objs
       /\ call' = IF out.phase = "upserted"
                  THEN [Idle EXCEPT !.pc = "fetch", !.pass = pass]
                  ELSE Idle
       /\ last' = pass
       /\ UNCHANGED <<now, kernel, reviews, classVars, extWrites, userOps>>

\* The Get at the top of an attempt of updateOvercommitStatusSafely.
StatusFetch(failed) ==
    LET getErr == IF failed THEN "other"
                  ELSE IF ~overcommit.exists THEN "notfound" ELSE "none"
        r == StatusAttempt(call.attempt, getErr, "none")
    IN /\ call.pc = "fetch"
       /\ IF getErr = "none"
          THEN /\ call' = FetchFresh(call, overcommit)
               /\ last' = [op |-> "StatusFetch", attempt |-> call.attempt,
                           err |-> getErr, returned |-> FALSE, pass |-> call.pass]
          ELSE /\ call' = Idle
               /\ last' = [op |-> "StatusFetch", attempt |-> call.attempt,
                           err |-> getErr, returned |-> TRUE,
                           pass |-> Returned(call.pass, r.err, call.attempt + 1,
                                             {}, FALSE)]
       /\ UNCHANGED <<now, kernel, reviews, classVars, overcommit, owned, extWrites, userOps>>

\* updateOvercommitStatus on the fetched object and what the loop makes of
\* its result.  The API refuses the write of an object that was changed
\* since it was fetched (conflict) or that is gone.
StatusUpdate(failed) ==
    LET readable == {t \in ResourceTypeSet : owned[t].exists}
        updErr == IF failed \/ ~overcommit.exists THEN "other"
                  ELSE IF call.stale THEN "conflict" ELSE "none"
        r == StatusAttempt(call.attempt, "none", updErr)
        updated == updateOvercommitStatus(call.fresh, readable)
    IN /\ call.pc = "update"
       /\ overcommit' = IF updErr = "none"
                        THEN [overcommit EXCEPT !.status = updated.status]
                        ELSE overcommit
       /\ call' = IF r.returns THEN Idle
                  ELSE [call EXCEPT !.pc = "fetch", !.attempt = @ + 1,
                                    !.slept = r.backoff]
       /\ last' = [op |-> "StatusUpdate", attempt |-> call.attempt,
                   fetchedAt |-> call.fetchedAt, err |-> updErr,
                   returned |-> r.returns, slept |-> r.backoff,
                   pass |-> IF r.returns
                            THEN Returned(call.pass, r.err, call.attempt + 1,
                                          readable, updErr = "none")
                            ELSE call.pass]
       /\ UNCHANGED <<now, kernel, reviews, classVars, owned, extWrites, userOps>>

\* Faulty variant: the API accepts the write of an object that was changed or
\* replaced since it was fetched.
NeverOutdated(c) == c

\* A write to the Overcommit makes the object a status update has fetched
\* out of date.
Outdated(c) == IF c.pc = "update" THEN [c EXCEPT !.stale = TRUE] ELSE c

\* Another client writes the Overcommit between the Get and the status
\* update of an attempt; what it changes is metadata outside this model, so
\* that only the newer resourceVersion shows.
OtherClientWrite ==
    /\ call.pc = "update"
    /\ ~call.stale
    /\ overcommit.exists
    /\ call' = Outdated(call)
    /\ last' = [op |-> "OtherClientWrite"]
    /\ UNCHANGED <<now, kernel, reviews, classVars, overcommit, owned, extWrites, userOps>>

UserDeleteOvercommit ==
    /\ userOps < MaxUserOps
    /\ overcommit.exists
    /\ overcommit' = NoOvercommit
    /\ call' = Outdated(call)
    /\ userOps' = userOps + 1
    /\ last' = [op |-> "UserDeleteOvercommit"]
    /\ UNCHANGED <<now, kernel, reviews, classVars, owned, extWrites>>

\* Drift is drawn between passes: the status update reads no attribute of
\* a managed object.
SingletonDrift(t, attr) ==
    /\ extWrites < MaxExternalWrites
    /\ call.pc = "idle"
    /\ owned[t].exists
    /\ KindOfType(t) # "Issuer"
    /\ attr \in OwnedAttributes(KindOfType(t))
    /\ owned[t].attrs[attr] # DriftValue(attr)
    /\ owned' = [owned EXCEPT ![t].attrs[attr] = DriftValue(attr)]
    /\ extWrites' = extWrites + 1
    /\ last' = [op |-> "SingletonDrift"]
    /\ UNCHANGED <<now, kernel, reviews, classVars, overcommit, call, userOps>>

SingletonDelete(t) ==
    /\ extWrites < MaxExternalWrites
    /\ owned[t].exists
    /\ owned' = [owned EXCEPT ![t] = Absent]
    /\ extWrites' = extWrites + 1
    /\ last' = [op |-> "SingletonDelete"]
    /\ UNCHANGED <<now, kernel, reviews, classVars, overcommit, call, userOps>>

InitSingleton ==
    /\ now = 1
    /\ rev = "part_001"
    /\ \E finalizers \in InitialFinalizers :
          overcommit = [NoOvercommit EXCEPT !.exists = TRUE, !.uid = 100,
                                            !.finalizers = finalizers]
    /\ classes = [c \in ClassNames |-> NoClass]
    /\ managed = [c \in ClassNames |-> [k \in ClassKindSet |-> Absent]]
    /\ owned = [t \in ResourceTypeSet |-> Absent]
    /\ call = Idle
    /\ extWrites = 0
    /\ userOps = 0
    /\ kernel = <<>>
    /\ reviews = <<>>
    /\ last = [op |-> "init"]

NextSingleton ==
    \/ \E fault \in SingletonFaults : SingletonPass(fault)
    \/ \E failed \in BOOLEAN : StatusFetch(failed)
    \/ \E failed \in BOOLEAN : StatusUpdate(failed)
    \/ OtherClientWrite
    \/ \E t \in ResourceTypeSet :
          \E attr \in OwnedAttributes(KindOfType(t)) : SingletonDrift(t, attr)
    \/ \E t \in ResourceTypeSet : SingletonDelete(t)

SpecSingleton == InitSingleton /\ [][NextSingleton]_vars

(***************************************************************************)
(* updateOvercommitStatusSafely on its own: one call, started by a pass    *)
(* whose upserts succeeded, over every set of managed objects that can be  *)
(* read and with other clients writing and deleting the Overcommit         *)
(***************************************************************************)

\* Conditions a status may hold when the call starts.
InitialConditions ==
    {<<>>,
     <<[Type |-> "Available", Status |-> "True", Reason |-> "Installed",
        Message |-> "installed", LastTransitionTime |-> 1],
       [Type |-> "ResourcesReady", Status |-> "False",
        Reason |-> "ResourcesNotReady",
        Message |-> "0 of 10 resources are ready", LastTransitionTime |-> 1]>>}

InitStatus ==
    /\ now = 1
    /\ rev = "part_001"
    /\ \E conditions \in InitialConditions :
          overcommit = [NoOvercommit EXCEPT !.exists = TRUE, !.uid = 100,
                                            !.status.Conditions = conditions]
    /\ classes = [c \in ClassNames |-> NoClass]
    /\ managed = [c \in ClassNames |-> [k \in ClassKindSet |-> Absent]]
    /\ \E present \in SUBSET ResourceTypeSet :
          owned = [t \in ResourceTypeSet |->
                      IF t \in present
                      THEN NewObject(SingletonTemplate(t, overcommit, DefaultLabel), 100)
                      ELSE Absent]
    /\ call = [Idle EXCEPT
                  !.pc = "fetch",
                  !.pass = PassRecord(SingletonReconcile(overcommit, owned, NoFault),
                                      overcommit, owned, NoFault)]
    /\ extWrites = 0
    /\ userOps = 0
    /\ kernel = <<>>
    /\ reviews = <<>>
    /\ last = [op |-> "init"]

NextStatus ==
    \/ \E failed \in BOOLEAN : StatusFetch(failed)
    \/ \E failed \in BOOLEAN : StatusUpdate(failed)
    \/ OtherClientWrite
    \/ UserDeleteOvercommit

SpecStatus == InitStatus /\ [][NextStatus]_vars

(***************************************************************************)
(* Properties of the singleton reconciler                                  *)
(***************************************************************************)

\* The pass that just ran fetched the Overcommit: the label load and the
\* Get succeeded and the object exists.
SingletonFetched ==
    /\ last.op = "Reconcile"
    /\ last.before.exists
    /\ last.phase \notin {"label", "get", "notfound"}

\* C4 (as claimed): when every upsert of a singleton pass has succeeded,
\* every managed object that existed before the pass has each owned
\* attribute equal to the template, whatever its kind.
C4_ExistingObjectsPatched ==
    (last.op = "Reconcile" /\ last.phase = "upserted") =>
        \A t \in last.existed :
            /\ owned[t].exists
            /\ EqualsTemplate(KindOfType(t), owned[t].attrs,
                              SingletonTemplate(t, overcommit, overcommit.spec.label))

\* C6 (as claimed): a pass that fetched an Overcommit carrying a legacy
\* finalizer persists it without the legacy names and with every other
\* finalizer, returns no error and a requeue after 1 s, writes no managed
\* object and starts no status update.
C6_LegacyFinalizersStripped ==
    (SingletonFetched /\ last.before.finalizers \cap LegacyFinalizers # {}) =>
        /\ overcommit.finalizers = last.before.finalizers \ LegacyFinalizers
        /\ last.err = "none"
        /\ last.requeue = "1s"
        /\ last.wrote = {}
        /\ call.pc = "idle"
        /\ ~last.statusWritten

\* C6 (amended): the same pass writes no managed object and starts no status
\* update; when its Update of the Overcommit succeeds it has persisted the
\* object without the legacy names and with every other finalizer and
\* returns no error and a requeue after 1 s; when that Update fails the
\* Overcommit is left as it was and the pass returns the error without
\* requeue.
C6_StrippedUnlessUpdateFails ==
    (SingletonFetched /\ last.before.finalizers \cap LegacyFinalizers # {}) =>
        /\ last.wrote = {}
        /\ call.pc = "idle"
        /\ ~last.statusWritten
        /\ last.updateCalled
        /\ IF last.err = "none"
           THEN /\ overcommit.finalizers =
                       last.before.finalizers \ LegacyFinalizers
                /\ last.requeue = "1s"
           ELSE /\ overcommit.finalizers = last.before.finalizers
                /\ last.requeue = "none"

\* A pass stripped both legacy names and kept the third finalizer.
C6_Witness ==
    /\ SingletonFetched
    /\ last.before.finalizers = LegacyFinalizers \cup {"backup.finalizer"}
    /\ last.err = "none"
    /\ overcommit.finalizers = {"backup.finalizer"}

\* C7: a pass that fetched an Overcommit with neither legacy finalizer does
\* not call Update on it in the migration step, leaves its finalizers as
\* they were and goes on to the upserts of the managed objects.
C7_MigrationIsIdempotent ==
    (SingletonFetched /\ last.before.finalizers \cap LegacyFinalizers = {}) =>
        /\ ~last.updateCalled
        /\ overcommit.finalizers = last.before.finalizers
        /\ last.phase \in {"upsert", "upserted"}

\* The pass after the stripping one: the managed objects do not exist yet
\* and this pass creates them.
C7_Witness ==
    /\ SingletonFetched
    /\ last.before.finalizers = {"backup.finalizer"}
    /\ last.phase = "upserted"
    /\ last.existed = {}
    /\ last.wrote = ResourceTypeSet

(***************************************************************************)
(* Properties of the status update                                         *)
(***************************************************************************)

\* The status update of the step that just ran was accepted by the API.
StatusWritten == last.op = "StatusUpdate" /\ last.err = "none"

ReadyRows(rows) == {i \in 1..Len(rows) : rows[i].Ready}

\* C8: in a written status the row of each resource type is ready exactly
\* when its read succeeded in this call; the ResourcesReady condition is
\* True exactly when all rows are ready and otherwise False with the message
\* "X of N resources are ready", X the ready rows and N the rows.
C8_RowsAndConditionFollowReads ==
    StatusWritten =>
        LET rows == overcommit.status.Resources
            conditions == overcommit.status.Conditions
            ready == {i \in 1..Len(conditions) :
                         conditions[i].Type = "ResourcesReady"}
        IN /\ Len(rows) = Len(resourceTypes)
           /\ \A i \in 1..Len(rows) :
                 rows[i].Ready <=> resourceTypes[i] \in last.pass.readable
           /\ ready # {}
           /\ \A i \in ready :
                 /\ conditions[i].Status = "True" <=>
                        ReadyRows(rows) = 1..Len(rows)
                 /\ ReadyRows(rows) # 1..Len(rows) =>
                        /\ conditions[i].Status = "False"
                        /\ conditions[i].Message =
                               ToString(Cardinality(ReadyRows(rows))) \o " of "
                                   \o ToString(Len(rows)) \o " resources are ready"

\* A status written with seven of the ten objects readable, over an older
\* ResourcesReady condition.
C8_Witness ==
    /\ StatusWritten
    /\ Cardinality(last.pass.readable) = 7
    /\ Len(overcommit.status.Conditions) = 2

\* C9: no call makes more than 5 attempts, the fifth returns, and the object
\* an attempt hands to the status update is the one its own Get fetched.
C9_FiveAttemptsEachOnFreshObject ==
    /\ call.attempt + 1 <= 5
    /\ call.pc = "update" =>
           /\ call.fetchedAt = call.attempt
           /\ ~call.stale => call.fresh = overcommit
    /\ last.op = "StatusUpdate" =>
           /\ last.attempt + 1 <= 5
           /\ last.fetchedAt = last.attempt
           /\ last.attempt + 1 = 5 => last.returned

\* Five attempts that all met a conflict.
C9_Witness ==
    /\ last.op = "StatusUpdate"
    /\ last.attempt + 1 = 5
    /\ last.err = "conflict"
    /\ last.returned
    /\ last.pass.attempts = 5

StatusStep == last.op \in {"StatusFetch", "StatusUpdate"}

\* C10 (as claimed): only a conflict leads to another attempt; any other
\* error of the Get or of the status update ends the loop at once and is
\* what the call returns; a conflict on one of the attempts 1 to 4 is
\* followed by another attempt.
C10_OnlyConflictsRetried ==
    StatusStep =>
        /\ (last.op = "StatusUpdate" /\ ~last.returned) => last.err = "conflict"
        /\ last.err \notin {"none", "conflict"} =>
               last.returned /\ last.pass.statusErr = last.err
        /\ (last.err = "conflict" /\ last.attempt + 1 <= 4) =>
               /\ ~last.returned
               /\ call.pc = "fetch"
               /\ call.attempt = last.attempt + 1

\* C10 (amended): as claimed, except that a Get that finds no Overcommit
\* ends the loop at once with no error.
C10_OnlyConflictsRetriedNotFoundIsSuccess ==
    StatusStep =>
        /\ (last.op = "StatusUpdate" /\ ~last.returned) => last.err = "conflict"
        /\ last.err \notin {"none", "conflict", "notfound"} =>
               last.returned /\ last.pass.statusErr = last.err
        /\ last.err = "notfound" =>
               /\ last.op = "StatusFetch"
               /\ last.returned
               /\ last.pass.statusErr = "none"
        /\ (last.err = "conflict" /\ last.attempt + 1 <= 4) =>
               /\ ~last.returned
               /\ call.pc = "fetch"
               /\ call.attempt = last.attempt + 1

\* The Overcommit was deleted while the loop waited to retry after a
\* conflict: the next Get finds nothing.
C10_Witness ==
    /\ last.op = "StatusFetch"
    /\ last.err = "notfound"
    /\ last.attempt >= 1
    /\ last.returned

\* The status update of the step that just ran met a conflict.
StatusConflict == last.op = "StatusUpdate" /\ last.err = "conflict"

\* C11 (as claimed): the loop waits 50*2^k ms after the conflicting attempt
\* with zero-based index k, for every k in 0..4: 50, 100, 200, 400 and
\* 800 ms.
C11_BackoffAfterEveryConflict ==
    StatusConflict =>
        /\ last.attempt \in 0..4
        /\ last.slept = <<50, 100, 200, 400, 800>>[last.attempt + 1]

\* C11 (amended): the loop waits 50*2^k ms after the conflicting attempt k
\* for k in 0..3, which is 50, 100, 200 and 400 ms, and then makes attempt
\* k + 1; after a conflict on attempt 4, the fifth, it returns the conflict
\* without waiting.
C11_BackoffBetweenAttempts ==
    StatusConflict =>
        /\ last.attempt \in 0..4
        /\ IF last.attempt <= 3
           THEN /\ last.slept = <<50, 100, 200, 400>>[last.attempt + 1]
                /\ call.slept = last.slept
                /\ ~last.returned
                /\ call.attempt = last.attempt + 1
           ELSE /\ last.slept = 0
                /\ last.returned
                /\ last.pass.statusErr = "conflict"

\* The wait after the fourth conflict in a row.
C11_Witness ==
    /\ StatusConflict
    /\ last.attempt = 3
    /\ last.slept = 400
    /\ call.pc = "fetch"

\* updateOvercommitStatusSafely has just returned to the pass that called it.
StatusCallReturned == StatusStep /\ last.returned

\* C12: a singleton pass whose upserts all succeeded calls the status update
\* and, whatever that call returns (success, a conflict on all 5 attempts,
\* another error), returns no error and a requeue after 10 s.
C12_StatusFailureDoesNotFailPass ==
    /\ (last.op = "Reconcile" /\ last.phase = "upserted") =>
           /\ last.err = "none"
           /\ call.pc = "fetch"
    /\ StatusCallReturned =>
           /\ last.pass.op = "Reconcile"
           /\ last.pass.phase = "done"
           /\ last.pass.err = "none"
           /\ last.pass.requeue = "10s"

\* A pass that created the managed objects and whose status update met a
\* conflict on each of the 5 attempts.
C12_Witness ==
    /\ StatusCallReturned
    /\ last.pass.wrote # {}
    /\ last.pass.statusErr = "conflict"
    /\ last.pass.attempts = 5
    /\ ~last.pass.statusWritten

(***************************************************************************)
(* Error handling of the two reconcilers                                   *)
(***************************************************************************)

\* C13 (as claimed): a class pass whose four upserts succeeded and whose
\* updateResourcesStatus failed returns no error and its periodic requeue.
C13_ClassStatusFailureDoesNotFailPass ==
    \A c \in ClassNames :
        (ClassPassed(c) /\ last.phase = "status") =>
            /\ last.err = "none"
            /\ last.requeue = "10s"

PodWebhookConflict == [at |-> "pod-webhook", err |-> "conflict"]

\* C14: a singleton pass whose CreateOrUpdate of the pod webhook
\* configuration met a conflict writes nothing to that configuration, goes
\* on to upsert the class-controller deployment, calls the status update
\* and returns no error with a requeue after 10 s.
C14_PodWebhookConflictSwallowed ==
    /\ (last.op = "Reconcile" /\ last.failed = PodWebhookConflict) =>
           /\ last.phase = "upserted"
           /\ last.err = "none"
           /\ "pod-webhook" \notin last.wrote
           /\ owned["overcommitclass-controller"].exists
           /\ "overcommitclass-controller" \notin last.existed =>
                  "overcommitclass-controller" \in last.wrote
           /\ EqualsTemplate("Deployment",
                             owned["overcommitclass-controller"].attrs,
                             SingletonTemplate("overcommitclass-controller",
                                               overcommit, overcommit.spec.label))
           /\ call.pc = "fetch"
    /\ (StatusCallReturned /\ last.pass.failed = PodWebhookConflict) =>
           /\ last.pass.phase = "done"
           /\ last.pass.err = "none"
           /\ last.pass.requeue = "10s"

\* The pass met the conflict on a cluster without managed objects, created
\* the class-controller deployment and wrote the status.
C14_Witness ==
    /\ StatusCallReturned
    /\ last.pass.failed = PodWebhookConflict
    /\ "overcommitclass-controller" \in last.pass.wrote
    /\ last.pass.statusWritten
    /\ ~owned["pod-webhook"].exists

\* C15: a failed CreateOrUpdate other than a conflict on the pod webhook
\* configuration ends the singleton pass with that error and no requeue;
\* the pass wrote no managed object that comes at or after the failed one in
\* the upsert order and made no status update.
C15_OtherErrorsAbort ==
    (last.op = "Reconcile" /\ last.failed.at # "none"
                           /\ last.failed # PodWebhookConflict) =>
        /\ last.phase = "upsert"
        /\ last.err = last.failed.err
        /\ last.requeue = "none"
        /\ \A t \in last.wrote : UpsertIndex(t) < UpsertIndex(last.failed.at)
        /\ call.pc = "idle"
        /\ last.attempts = 0 /\ ~last.statusWritten

\* A conflict on the class-validating webhook configuration, on a cluster
\* where the objects before it had to be created.
C15_Witness ==
    /\ last.op = "Reconcile"
    /\ last.failed = [at |-> "overcommitclass-webhook", err |-> "conflict"]
    /\ last.err = "conflict"
    /\ last.wrote = {"issuer", "overcommitclass-certificate",
                     "overcommitclass-deployment", "overcommitclass-service"}
    /\ \A t \in ResourceTypeSet \ last.wrote : ~owned[t].exists

\* The pass that just ran, of either reconciler.
AnyPass == last.op \in {"Reconcile", "ClassReconcile"}

\* C16 (as claimed): a pass of either reconciler whose load of the label key
\* failed goes on with the default key and does not return an error.
C16_LabelFailureDoesNotFailPass ==
    (AnyPass /\ last.phase = "label") => last.err = "none"

(***************************************************************************)
(* Passes for keys whose policy object is gone: the Overcommit or the      *)
(* class was deleted and managed objects may be left behind                *)
(***************************************************************************)

InitAbsent ==
    /\ now = 1
    /\ rev \in ClassRevisions
    /\ overcommit \in {NoOvercommit,
                       [NoOvercommit EXCEPT !.exists = TRUE, !.uid = 100]}
    /\ classes = [c \in ClassNames |-> NoClass]
    /\ \E left \in SUBSET ClassKindSet :
          managed = [c \in ClassNames |->
                        [k \in ClassKindSet |->
                            IF k \in left
                            THEN NewObject(ClassTemplate(c, NoClass, DefaultLabel, k), 1)
                            ELSE Absent]]
    /\ \E present \in {{}, ResourceTypeSet} :
          owned = [t \in ResourceTypeSet |->
                      IF t \in present
                      THEN NewObject(SingletonTemplate(t, overcommit, DefaultLabel), 100)
                      ELSE Absent]
    /\ call = Idle
    /\ extWrites = 0
    /\ userOps = 0
    /\ kernel = <<>>
    /\ reviews = <<>>
    /\ last = [op |-> "init"]

NextAbsent ==
    \/ \E fault \in SingletonFaults : SingletonPass(fault)
    \/ \E failed \in BOOLEAN : StatusFetch(failed)
    \/ \E failed \in BOOLEAN : StatusUpdate(failed)
    \/ \E c \in ClassNames, fault \in ClassFaults : ClassReconcilePass(c, fault)
    \/ UserDeleteOvercommit

SpecAbsent == InitAbsent /\ [][NextAbsent]_vars

\* The step is a Reconcile pass for a key whose policy object does not exist.
AbsentPass ==
    \/ last'.op = "Reconcile" /\ ~overcommit.exists
    \/ last'.op = "ClassReconcile" /\ ~classes[last'.name].exists

ControllerReferences(class) == {r \in class.ownerReferences : r.Controller}

\* C18 (as claimed): a class pass that got past the owner-reference step
\* and went on to the upserts ran on a class with exactly one controller
\* owner reference, which points at the singleton Overcommit.
C18_UpsertOnlyWithControllerReference ==
    \A c \in ClassNames :
        (ClassPassed(c) /\ last.phase \in {"upsert", "metrics", "status", "done"}) =>
            /\ Cardinality(ControllerReferences(classes[c])) = 1
            /\ \A r \in ControllerReferences(classes[c]) :
                   r.Kind = "Overcommit" /\ r.UID = overcommit.uid

(***************************************************************************)
(* Both reconcilers on a cluster whose managed objects all exist in the    *)
(* template's shape, created by the reconcilers or by another writer       *)
(* (then without controller reference)                                     *)
(***************************************************************************)

InitQuiet ==
    /\ now = 1
    /\ rev \in ClassRevisions
    /\ overcommit = [NoOvercommit EXCEPT !.exists = TRUE, !.uid = 100]
    /\ classes = [c \in ClassNames |->
                     [exists |-> TRUE, uid |-> 1, deletionTimestamp |-> FALSE,
                      finalizers |-> {ClassFinalizer},
                      ownerReferences |-> {OvercommitRef(overcommit)},
                      spec |-> [excludedNamespaces |-> ""]]]
    /\ \E adopted \in BOOLEAN :
          /\ managed = [c \in ClassNames |->
                           [k \in ClassKindSet |->
                               [exists |-> TRUE,
                                owner |-> IF adopted THEN NoOwner ELSE <<1>>,
                                attrs |-> ClassTemplate(c, classes[c],
                                                        DefaultLabel, k)]]]
          /\ owned = [t \in ResourceTypeSet |->
                         [exists |-> TRUE,
                          owner |-> IF adopted THEN NoOwner ELSE <<100>>,
                          attrs |-> SingletonTemplate(t, overcommit, DefaultLabel)]]
    /\ call = Idle
    /\ extWrites = 0
    /\ userOps = 0
    /\ kernel = <<>>
    /\ reviews = <<>>
    /\ last = [op |-> "init"]

NextQuiet ==
    \/ \E fault \in SingletonFaults : SingletonPass(fault)
    \/ \E failed \in BOOLEAN : StatusFetch(failed)
    \/ \E failed \in BOOLEAN : StatusUpdate(failed)
    \/ \E c \in ClassNames, fault \in ClassFaults : ClassReconcilePass(c, fault)
    \/ \E c \in ClassNames, kind \in ClassKindSet :
          \E attr \in OwnedAttributes(kind) : ExternalDrift(c, kind, attr)
    \/ \E t \in ResourceTypeSet :
          \E attr \in OwnedAttributes(KindOfType(t)) : SingletonDrift(t, attr)

SpecQuiet == InitQuiet /\ [][NextQuiet]_vars

\* Every managed object of the singleton exists with each owned attribute
\* equal to the template.
SingletonInShape ==
    \A t \in ResourceTypeSet :
        /\ owned[t].exists
        /\ EqualsTemplate(KindOfType(t), owned[t].attrs,
                          SingletonTemplate(t, overcommit, overcommit.spec.label))

ClassInShape(c) ==
    \A k \in ClassKindSet :
        /\ managed[c][k].exists
        /\ EqualsTemplate(k, managed[c][k].attrs,
                          ClassTemplate(c, classes[c], overcommit.spec.label, k))

\* C19: a pass of either reconciler that starts with every managed object
\* in the template's shape creates and updates none of them and sets no
\* controller reference, so that it changes nothing but the status.
C19_NoSpuriousWrites ==
    [][/\ (last'.op = "Reconcile" /\ SingletonInShape) =>
              /\ owned' = owned
              /\ last'.wrote = {}
              /\ overcommit' = overcommit
       /\ \A c \in ClassNames :
              (last'.op = "ClassReconcile" /\ last'.name = c
                   /\ ~IsBeingDeleted(classes[c]) /\ ClassInShape(c)) =>
                  managed'[c] = managed[c]]_vars

\* The second of two passes in a row over objects another writer had
\* created: the status of the first is there, nothing was written and the
\* objects are still without controller reference.
C19_Witness ==
    /\ last.op = "Reconcile"
    /\ last.phase = "upserted"
    /\ last.wrote = {}
    /\ extWrites = 0
    /\ Len(overcommit.status.Resources) = Len(resourceTypes)
    /\ \A t \in ResourceTypeSet : owned[t].owner = NoOwner

\* C20 (as claimed): a class pass in which getTotalClasses failed returns
\* an error to the framework, never success without requeue.
C20_MetricsFailureReturnsError ==
    \A c \in ClassNames :
        (ClassPassed(c) /\ last.phase = "metrics") =>
            /\ last.err # "none"
            /\ ~(last.err = "none" /\ last.requeue = "none")

(***************************************************************************)
(* The equality kernel on its own: one comparison per behaviour            *)
(***************************************************************************)

\* Longest list handed to a helper.
MaxLen == 2

\* Every call the kernel is checked on: the helper, then its two arguments.
\* Lists repeat entries, maps and toleration lists may be nil or empty.
KernelCalls ==
    LET SeqsUpTo(S) == UNION {[1..n -> S] : n \in 0..MaxLen}
        EnvVars == [Name : {"A", "B"}, Value : {"1", "2"}]
        Ports == [Name : {"https", "metrics"}, Port : {443, 8443},
                  TargetPort : {9443}, Protocol : {"TCP"}]
        Maps == {NilMap} \cup
                {MkMap(f) : f \in UNION {[K -> {"1", "2"}] :
                                            K \in SUBSET {"a", "b"}}}
        Dedicated == [Key |-> "dedicated", Operator |-> "Equal",
                      Value |-> "infra", Effect |-> "NoSchedule",
                      TolerationSeconds |-> <<>>]
        Tolerations ==
            {Dedicated,
             [Dedicated EXCEPT !.TolerationSeconds = <<30>>],
             [Dedicated EXCEPT !.TolerationSeconds = <<60>>],
             [Key |-> "gpu", Operator |-> "Exists", Value |-> "",
              Effect |-> "NoExecute", TolerationSeconds |-> <<>>],
             [Key |-> "a-b", Operator |-> "c", Value |-> "",
              Effect |-> "NoSchedule", TolerationSeconds |-> <<>>],
             [Key |-> "a", Operator |-> "b-c", Value |-> "",
              Effect |-> "NoSchedule", TolerationSeconds |-> <<>>]}
        TolerationLists ==
            {[isNil |-> TRUE, items |-> <<>>]} \cup
            {[isNil |-> FALSE, items |-> t] : t \in SeqsUpTo(Tolerations)}
    IN [fn : {"envVarsEqual"}, a : SeqsUpTo(EnvVars), b : SeqsUpTo(EnvVars)]
       \cup [fn : {"portsEqual"}, a : SeqsUpTo(Ports), b : SeqsUpTo(Ports)]
       \cup [fn : {"slicesEqual"}, a : SeqsUpTo({"v1", "v1beta1"}),
             b : SeqsUpTo({"v1", "v1beta1"})]
       \cup [fn : {"mapsEqual"}, a : Maps, b : Maps]
       \cup [fn : {"TolerationsEqual", "MutateDeployment"},
             a : TolerationLists, b : TolerationLists]

KernelEqual(fn, a, b) ==
    CASE fn = "envVarsEqual" -> envVarsEqual(a, b)
      [] fn = "portsEqual" -> portsEqual(a, b)
      [] fn = "slicesEqual" -> slicesEqual(a, b)
      [] fn = "mapsEqual" -> mapsEqual(a, b)
      [] fn = "TolerationsEqual" -> TolerationsEqual(a, b)

InitKernel ==
    /\ now = 1
    /\ rev = "part_001"
    /\ overcommit = [NoOvercommit EXCEPT !.exists = TRUE, !.uid = 100]
    /\ classes = [c \in ClassNames |-> NoClass]
    /\ managed = [c \in ClassNames |-> [k \in ClassKindSet |-> Absent]]
    /\ owned = <<>>
    /\ call = <<>>
    /\ extWrites = 0
    /\ userOps = 0
    /\ kernel \in KernelCalls
    /\ reviews = <<>>
    /\ last = [op |-> "init"]

\* A helper is called with (a, b) and returns.
Compare ==
    /\ last.op = "init"
    /\ kernel.fn # "MutateDeployment"
    /\ last' = [op |-> "compare",
                result |-> KernelEqual(kernel.fn, kernel.a, kernel.b)]
    /\ UNCHANGED <<now, rev, overcommit, classes, managed, owned, call, extWrites,
                   userOps, kernel, reviews>>

\* The deployment mutate function meets a deployment whose tolerations are
\* b while the desired deployment carries a; nothing else differs.
MutateDeployment ==
    /\ last.op = "init"
    /\ kernel.fn = "MutateDeployment"
    /\ LET template == CreateDeployment("gold", NoClass)
           current == [exists |-> TRUE, owner |-> <<7>>,
                       attrs |-> [template EXCEPT !.Tolerations = kernel.b]]
           desired == [template EXCEPT !.Tolerations = kernel.a]
       IN last' = [op |-> "mutate", before |-> current,
                   after |-> MutateDeploymentFull(current, desired, 7)]
    /\ UNCHANGED <<now, rev, overcommit, classes, managed, owned, call, extWrites,
                   userOps, kernel, reviews>>

NextKernel == Compare \/ MutateDeployment

SpecKernel == InitKernel /\ [][NextKernel]_vars

\* b holds the entries of a in some other (or the same) order.
IsReordering(a, b) ==
    /\ Len(a) = Len(b)
    /\ \E p \in [1..Len(a) -> 1..Len(a)] :
          /\ \A i, j \in 1..Len(a) : p[i] = p[j] => i = j
          /\ \A i \in 1..Len(a) : b[i] = a[p[i]]

ComparedTolerations == last.op = "compare" /\ kernel.fn = "TolerationsEqual"

\* C23: TolerationsEqual does not look at the order of the entries: a
\* toleration list and any reordering of it compare equal.
C23_TolerationOrderIgnored ==
    (/\ ComparedTolerations
     /\ kernel.a.isNil = kernel.b.isNil
     /\ IsReordering(kernel.a.items, kernel.b.items)) => last.result

C23_Witness ==
    /\ ComparedTolerations
    /\ ~kernel.a.isNil /\ ~kernel.b.isNil
    /\ Len(kernel.a.items) = 2
    /\ kernel.a.items # kernel.b.items
    /\ IsReordering(kernel.a.items, kernel.b.items)
    /\ last.result

\* How many entries of the list s carry the tuple x.
TupleCount(s, x) ==
    Cardinality({i \in 1..Len(s) :
        <<s[i].Key, s[i].Operator, s[i].Value, s[i].Effect,
          s[i].TolerationSeconds = <<>>>> = x})

SameTupleMultiset(a, b) ==
    /\ Len(a) = Len(b)
    /\ \A i \in 1..Len(a) :
          LET x == <<a[i].Key, a[i].Operator, a[i].Value, a[i].Effect,
                     a[i].TolerationSeconds = <<>>>>
          IN TupleCount(a, x) = TupleCount(b, x)

\* C24: for non-nil toleration lists, TolerationsEqual is true exactly when
\* the lists have the same length and the same multiset of tuples (key,
\* operator, value, effect, tolerationSeconds-is-nil).
C24_EqualIffSameMultiset ==
    (ComparedTolerations /\ ~kernel.a.isNil /\ ~kernel.b.isNil) =>
        (last.result <=> SameTupleMultiset(kernel.a.items, kernel.b.items))

\* C25: every helper of the kernel is reflexive and symmetric: it returns
\* true on (x, x) and the same on (x, y) as on (y, x).
C25_ReflexiveAndSymmetric ==
    last.op = "compare" =>
        /\ KernelEqual(kernel.fn, kernel.a, kernel.a)
        /\ last.result = KernelEqual(kernel.fn, kernel.b, kernel.a)

IsNilArg(x) == x.isNil

IsEmptyArg(x) ==
    /\ ~x.isNil
    /\ IF kernel.fn = "mapsEqual" THEN DOMAIN x.kv = {} ELSE x.items = <<>>

\* C26: nil and empty are distinct: mapsEqual and TolerationsEqual return
\* true on (nil, nil) and false on (nil, empty) and on (empty, nil).
C26_NilIsNotEmpty ==
    (last.op = "compare" /\ kernel.fn \in {"mapsEqual", "TolerationsEqual"}) =>
        /\ (IsNilArg(kernel.a) /\ IsNilArg(kernel.b)) => last.result
        /\ (IsNilArg(kernel.a) /\ IsEmptyArg(kernel.b)) => ~last.result
        /\ (IsEmptyArg(kernel.a) /\ IsNilArg(kernel.b)) => ~last.result

C26_Witness ==
    /\ last.op = "compare"
    /\ kernel.fn = "mapsEqual"
    /\ IsNilArg(kernel.a)
    /\ IsEmptyArg(kernel.b)
    /\ ~last.result

\* The name -> value mapping an environment list defines.
EnvMapping(s) == {<<s[i].Name, s[i].Value>> : i \in 1..Len(s)}

\* C27: envVarsEqual is true only when both lists define the same names
\* with the same values; a name on one side only makes it false.
C27_EnvComparedAsMapping ==
    (last.op = "compare" /\ kernel.fn = "envVarsEqual") =>
        /\ last.result => (BuildMap(kernel.a, 1, EmptyKV) =
                           BuildMap(kernel.b, 1, EmptyKV))
        /\ {x[1] : x \in EnvMapping(kernel.a)} #
               {x[1] : x \in EnvMapping(kernel.b)} => ~last.result

\* The two lists agree entry by entry on everything but tolerationSeconds.
OnlySecondsDiffer(a, b) ==
    /\ ~a.isNil /\ ~b.isNil
    /\ Len(a.items) = Len(b.items)
    /\ \A i \in 1..Len(a.items) :
          [a.items[i] EXCEPT !.TolerationSeconds = <<>>] =
              [b.items[i] EXCEPT !.TolerationSeconds = <<>>]

\* ... and where they differ, both sides carry a number.
OnlyNumbersDiffer(a, b) ==
    /\ OnlySecondsDiffer(a, b)
    /\ \A i \in 1..Len(a.items) :
          (a.items[i].TolerationSeconds = <<>>) <=>
              (b.items[i].TolerationSeconds = <<>>)

\* ... or some entry is nil on one side and a number on the other.
NilAgainstNumber(a, b) ==
    /\ OnlySecondsDiffer(a, b)
    /\ \E i \in 1..Len(a.items) :
          (a.items[i].TolerationSeconds = <<>>) #
              (b.items[i].TolerationSeconds = <<>>)

SecondsNumberIgnored ==
    /\ (ComparedTolerations /\ OnlyNumbersDiffer(kernel.a, kernel.b)) =>
           last.result
    /\ (last.op = "mutate" /\ OnlyNumbersDiffer(kernel.a, kernel.b)) =>
           last.after = last.before

minimum == 1

maximum == 10000

ReviewedNames == {"gold", "silver"}

\* Ratios a request may carry: 0, 0.0001, 1 and 1.0001.
ReviewedSpecs ==
    [isDefault : BOOLEAN,
     cpuOvercommit : {0, minimum, maximum, maximum + 1},
     memoryOvercommit : {0, minimum, maximum, maximum + 1}]

\* Faulty variant: the bounds themselves are excluded.
SchemaAdmitsExclusive(spec) ==
    /\ minimum < spec.cpuOvercommit /\ spec.cpuOvercommit < maximum
    /\ minimum < spec.memoryOvercommit /\ spec.memoryOvercommit < maximum

\* The structural schema of the CRD: minimum and maximum are inclusive.
SchemaAdmits(spec) ==
    /\ minimum <= spec.cpuOvercommit /\ spec.cpuOvercommit <= maximum
    /\ minimum <= spec.memoryOvercommit /\ spec.memoryOvercommit <= maximum

\* Faulty variant: the default flag of the other classes is not looked at.
ValidateIgnoringDefault(name, spec, cluster) ==
    IF ~SchemaAdmits(spec) THEN "RatioOutOfRange" ELSE "Allowed"

\* The class validator: the ratio bounds, then the uniqueness of the
\* default among the classes the cluster holds at this moment, the reviewed
\* object itself left out.
Validate(name, spec, cluster) ==
    IF \/ spec.cpuOvercommit < minimum \/ spec.cpuOvercommit > maximum
       \/ spec.memoryOvercommit < minimum \/ spec.memoryOvercommit > maximum
    THEN "RatioOutOfRange"
    ELSE IF /\ spec.isDefault
            /\ \E other \in (DOMAIN cluster) \ {name} :
                  cluster[other].exists /\ cluster[other].spec.isDefault
    THEN "DuplicateDefault"
    ELSE "Allowed"

NoReview == [pc |-> "none"]

InitAdmission ==
    /\ now = 1
    /\ rev = "part_001"
    /\ overcommit = [NoOvercommit EXCEPT !.exists = TRUE, !.uid = 100]
    /\ classes = [c \in ReviewedNames |->
                     [exists |-> FALSE,
                      spec |-> [isDefault |-> FALSE, cpuOvercommit |-> minimum,
                                memoryOvercommit |-> minimum]]]
    /\ managed = <<>>
    /\ owned = <<>>
    /\ call = <<>>
    /\ extWrites = 0
    /\ userOps = 0
    /\ kernel = <<>>
    /\ reviews = [inFlight |-> [c \in ReviewedNames |-> NoReview],
                  overlapped |-> FALSE]
    /\ last = [op |-> "init"]

\* A create or update of class c reaches the API server, which applies the
\* schema and, when it admits the object, sends the review to the validator.
SubmitClass(c, spec) ==
    /\ userOps < MaxUserOps
    /\ reviews.inFlight[c].pc = "none"
    /\ userOps' = userOps + 1
    /\ reviews' = IF SchemaAdmits(spec)
                  THEN [reviews EXCEPT
                           !.inFlight[c] = [pc |-> "received", spec |-> spec]]
                  ELSE reviews
    /\ last' = [op |-> "submit", class |-> c, spec |-> spec,
                rejected |-> ~SchemaAdmits(spec)]
    /\ UNCHANGED <<now, rev, overcommit, classes, managed, owned, call, extWrites,
                   kernel>>

\* The validator handles the review of class c against the cluster as it is.
HandleReview(c) ==
    /\ reviews.inFlight[c].pc = "received"
    /\ LET spec == reviews.inFlight[c].spec
           verdict == Validate(c, spec, classes)
       IN /\ reviews' =
                [inFlight |->
                    [reviews.inFlight EXCEPT
                        ![c] = IF verdict = "Allowed"
                               THEN [pc |-> "allowed", spec |-> spec]
                               ELSE NoReview],
                 overlapped |->
                    \/ reviews.overlapped
                    \/ \E d \in ReviewedNames \ {c} :
                          reviews.inFlight[d].pc = "allowed"]
          /\ last' = [op |-> "review", class |-> c, spec |-> spec,
                      verdict |-> verdict]
    /\ UNCHANGED <<now, rev, overcommit, classes, managed, owned, call, extWrites,
                   userOps, kernel>>

\* The API server stores the object of an allowed review.
PersistClass(c) ==
    /\ reviews.inFlight[c].pc = "allowed"
    /\ classes' = [classes EXCEPT
                      ![c] = [exists |-> TRUE, spec |-> reviews.inFlight[c].spec]]
    /\ reviews' = [reviews EXCEPT !.inFlight[c] = NoReview]
    /\ last' = [op |-> "persist", class |-> c]
    /\ UNCHANGED <<now, rev, overcommit, managed, owned, call, extWrites, userOps,
                   kernel>>

(***************************************************************************)
(* Pod mutator (the /mutate-pod handler): candidate selection, rewrite of  *)
(* the requests, fail-open.  The label of a pod is <<>> when absent and    *)
(* <<V>> otherwise; pods of excluded namespaces are filtered out by the    *)
(* matchConditions before they reach the handler.                          *)
(***************************************************************************)

\* Faulty variant: without label any class will do.
CandidatesAnyClass(label, cluster) ==
    IF label # <<>>
    THEN {c \in DOMAIN cluster : cluster[c].exists /\ c = label[1]}
    ELSE {c \in DOMAIN cluster : cluster[c].exists}

\* The classes the selection may return: the class named by the label, or
\* without label a class with isDefault=true.  Nothing says which one is
\* taken when several are default.
Candidates(label, cluster) ==
    IF label # <<>>
    THEN {c \in DOMAIN cluster : cluster[c].exists /\ c = label[1]}
    ELSE {c \in DOMAIN cluster : cluster[c].exists /\ cluster[c].spec.isDefault}

EmptyPatch == [r \in {} |-> 0]

\* requests[r] := limits[r] * ratio(r) for each resource with a limit; the
\* ratio is counted in units of 0.0001.
Rewrite(limits, spec) ==
    [r \in DOMAIN limits |->
        (limits[r] * (IF r = "cpu" THEN spec.cpuOvercommit
                      ELSE spec.memoryOvercommit)) \div maximum]

\* Faulty variant: a failure inside the handler denies the pod.
MutatePodResponseFailClosed(pod, cluster, picked, failed) ==
    IF failed
    THEN [allowed |-> FALSE, reason |-> "InternalError", patch |-> EmptyPatch]
    ELSE IF picked # <<>>
    THEN [allowed |-> TRUE, reason |-> "",
          patch |-> Rewrite(pod.limits, cluster[picked[1]].spec)]
    ELSE IF pod.label # <<>>
    THEN [allowed |-> FALSE, reason |-> "UnknownClass", patch |-> EmptyPatch]
    ELSE [allowed |-> TRUE, reason |-> "", patch |-> EmptyPatch]

\* The admission response: picked is <<>> when the selection found no class
\* and <<c>> when it took class c.
MutatePodResponse(pod, cluster, picked, failed) ==
    IF failed
    THEN [allowed |-> TRUE, reason |-> "", patch |-> EmptyPatch]
    ELSE IF picked # <<>>
    THEN [allowed |-> TRUE, reason |-> "",
          patch |-> Rewrite(pod.limits, cluster[picked[1]].spec)]
    ELSE IF pod.label # <<>>
    THEN [allowed |-> FALSE, reason |-> "UnknownClass", patch |-> EmptyPatch]
    ELSE [allowed |-> TRUE, reason |-> "", patch |-> EmptyPatch]

\* One mutating review of a pod create.
MutatePod(pod, failed) ==
    LET candidates == Candidates(pod.label, classes)
    IN /\ \E picked \in IF candidates = {} THEN {<<>>}
                        ELSE {<<c>> : c \in candidates} :
             last' = [op |-> "MutatePod", pod |-> pod, failed |-> failed,
                      candidates |-> candidates, picked |-> picked,
                      response |-> MutatePodResponse(pod, classes, picked, failed)]
       /\ UNCHANGED <<now, rev, overcommit, classes, managed, owned, call, extWrites,
                      userOps, kernel, reviews>>

NextAdmission ==
    \/ \E c \in ReviewedNames, spec \in ReviewedSpecs : SubmitClass(c, spec)
    \/ \E c \in ReviewedNames : HandleReview(c)
    \/ \E c \in ReviewedNames : PersistClass(c)
    \/ \E label \in {<<>>, <<"gold">>, <<"platinum">>},
          limits \in {EmptyPatch, [r \in {"cpu"} |-> 20000],
                      [r \in {"cpu", "memory"} |-> 20000]},
          failed \in BOOLEAN :
          MutatePod([label |-> label, limits |-> limits], failed)

SpecAdmission == InitAdmission /\ [][NextAdmission]_vars

DefaultClasses ==
    {c \in ReviewedNames : classes[c].exists /\ classes[c].spec.isDefault}

C30_AdmittedRatiosInRange ==
    /\ \A c \in ReviewedNames :
          classes[c].exists =>
             /\ classes[c].spec.cpuOvercommit \in minimum..maximum
             /\ classes[c].spec.memoryOvercommit \in minimum..maximum
    /\ last.op = "submit" =>
          (last.rejected <=>
              \/ last.spec.cpuOvercommit \notin minimum..maximum
              \/ last.spec.memoryOvercommit \notin minimum..maximum)
    /\ last.op = "review" => last.verdict # "RatioOutOfRange"

C30_Witness ==
    /\ last.op = "persist"
    /\ classes[last.class].spec.cpuOvercommit = minimum
    /\ classes[last.class].spec.memoryOvercommit = maximum

(***************************************************************************)
(* Two classes and the singleton side by side: which objects a pass of     *)
(* each reconciler touches                                                 *)
(***************************************************************************)

\* Both classes were just created; the singleton has its objects but for
\* those another writer took away.
InitFrame ==
    /\ now = 1
    /\ rev \in ClassRevisions
    /\ overcommit = [NoOvercommit EXCEPT !.exists = TRUE, !.uid = 100]
    /\ classes = [c \in {"gold", "silver"} |->
                     [exists |-> TRUE, uid |-> IF c = "gold" THEN 1 ELSE 2,
                      deletionTimestamp |-> FALSE, finalizers |-> {},
                      ownerReferences |-> {},
                      spec |-> [excludedNamespaces |-> ""]]]
    /\ managed = [c \in {"gold", "silver"} |-> [k \in ClassKindSet |-> Absent]]
    /\ \E missing \in {{"pod-webhook"}, ResourceTypeSet} :
          owned = [t \in ResourceTypeSet |->
                      IF t \in missing THEN Absent
                      ELSE [exists |-> TRUE, owner |-> <<100>>,
                            attrs |-> SingletonTemplate(t, overcommit,
                                                        DefaultLabel)]]
    /\ call = Idle
    /\ extWrites = 0
    /\ userOps = 0
    /\ kernel = <<>>
    /\ reviews = <<>>
    /\ last = [op |-> "init"]

NextFrame ==
    \/ \E c \in DOMAIN classes, fault \in {"none", "Service", "delCertificate"} :
          ClassReconcilePass(c, fault)
    \/ \E c \in DOMAIN classes : UserDeleteClass(c)
    \/ SingletonPass(NoFault)
    \/ StatusFetch(FALSE)
    \/ StatusUpdate(FALSE)

SpecFrame == InitFrame /\ [][NextFrame]_vars

InitDeletion ==
    /\ now = 1
    /\ rev \in ClassRevisions
    /\ overcommit = updateOvercommitStatus(
                        [NoOvercommit EXCEPT !.exists = TRUE, !.uid = 100],
                        ResourceTypeSet)
    /\ classes = [c \in ClassNames |->
                     [exists |-> TRUE, uid |-> 1, deletionTimestamp |-> FALSE,
                      finalizers |-> {ClassFinalizer},
                      ownerReferences |-> {OvercommitRef(overcommit)},
                      spec |-> [excludedNamespaces |-> ""]]]
    /\ managed = [c \in ClassNames |->
                     [k \in ClassKindSet |->
                         [exists |-> TRUE, owner |-> <<1>>,
                          attrs |-> ClassTemplate(c, classes[c], DefaultLabel, k)]]]
    /\ owned = [t \in ResourceTypeSet |->
                   [exists |-> TRUE, owner |-> <<100>>,
                    attrs |-> SingletonTemplate(t, overcommit, DefaultLabel)]]
    /\ call = Idle
    /\ extWrites = 0
    /\ userOps = 0
    /\ kernel = <<>>
    /\ reviews = <<>>
    /\ last = [op |-> "init"]

NextDeletion ==
    \/ \E c \in ClassNames : UserDeleteClass(c)
    \/ \E c \in ClassNames, fault \in {"none", "delService", "update"} :
          ClassReconcilePass(c, fault)
    \/ SingletonPass(NoFault)
    \/ StatusFetch(FALSE)
    \/ StatusUpdate(FALSE)
    \/ \E t \in ResourceTypeSet : SingletonDelete(t)

SpecDeletion ==
    /\ InitDeletion
    /\ [][NextDeletion]_vars
    /\ WF_vars(\E c \in ClassNames : ClassReconcilePass(c, "none"))
    /\ WF_vars(SingletonPass(NoFault))
    /\ WF_vars(StatusFetch(FALSE))
    /\ WF_vars(StatusUpdate(FALSE))

ResourcesReadyIs(status) ==
    \E i \in 1..Len(overcommit.status.Conditions) :
        /\ overcommit.status.Conditions[i].Type = "ResourcesReady"
        /\ overcommit.status.Conditions[i].Status = status

ClassDeleteRequested == last.op = "UserDeleteClass"

ClassAndObjectsGone ==
    \A c \in ClassNames :
        ~classes[c].exists /\ \A k \in ClassKindSet : ~managed[c][k].exists

\* Cleanup runs to its end: the finalizer goes and the class with it.
ObjectsGoneAfterDeletion == ClassDeleteRequested ~> ClassAndObjectsGone

\* A False condition, which only an unreadable object of the singleton
\* itself brings about, is True again after the next pass.
ConditionRecovers == ResourcesReadyIs("False") ~> ResourcesReadyIs("True")

\* C22: after a class is deleted its four managed objects are gone, and
\* the ResourcesReady condition of the Overcommit becomes False at some
\* point of the deletion and returns to True afterwards.
C22_DeletionFlipsCondition ==
    /\ ObjectsGoneAfterDeletion
    /\ ClassDeleteRequested ~> ResourcesReadyIs("False")
    /\ ConditionRecovers

(***************************************************************************)
(* The key of a toleration                                                 *)
(***************************************************************************)

ComparedTuple(tol) ==
    <<tol.Key, tol.Operator, tol.Value, tol.Effect, tol.TolerationSeconds = <<>>>>

\* C39: createTolerationKey is injective on (key, operator, value, effect,
\* tolerationSeconds-is-nil): two tolerations that differ in that tuple get
\* different keys, and the lists holding just them compare unequal.
C39_TolerationKeyInjective ==
    (/\ ComparedTolerations
     /\ ~kernel.a.isNil /\ ~kernel.b.isNil
     /\ Len(kernel.a.items) = 1 /\ Len(kernel.b.items) = 1
     /\ ComparedTuple(kernel.a.items[1]) # ComparedTuple(kernel.b.items[1])) =>
        /\ createTolerationKey(kernel.a.items[1]) #
               createTolerationKey(kernel.b.items[1])
        /\ ~last.result

(***************************************************************************)
(* Claims about the pod mutator                                            *)
(***************************************************************************)

PodMutated == last.op = "MutatePod" /\ ~last.failed

SelectionCases ==
    PodMutated =>
        /\ (last.pod.label # <<>> /\ last.candidates # {}) =>
               /\ last.picked = last.pod.label
               /\ last.response.allowed
               /\ last.response.patch =
                      Rewrite(last.pod.limits, classes[last.picked[1]].spec)
        /\ (last.pod.label # <<>> /\ last.candidates = {}) =>
               /\ ~last.response.allowed
               /\ last.response.reason = "UnknownClass"
        /\ (last.pod.label = <<>> /\ Cardinality(DefaultClasses) = 1) =>
               /\ {last.picked[1]} = DefaultClasses
               /\ last.response.allowed
               /\ last.response.patch =
                      Rewrite(last.pod.limits, classes[last.picked[1]].spec)
        /\ (last.pod.label = <<>> /\ DefaultClasses = {}) =>
               /\ last.picked = <<>>
               /\ last.response.allowed
               /\ last.response.patch = EmptyPatch

InitOrphan ==
    /\ now = 1
    /\ rev \in ClassRevisions
    /\ overcommit = [NoOvercommit EXCEPT !.exists = TRUE, !.uid = 100]
    /\ classes = [c \in ClassNames |->
                     [exists |-> TRUE, uid |-> 1, deletionTimestamp |-> FALSE,
                      finalizers |-> {ClassFinalizer},
                      ownerReferences |-> {OvercommitRef(overcommit)},
                      spec |-> [excludedNamespaces |-> ""]]]
    /\ \E present \in SUBSET ClassKindSet :
          managed = [c \in ClassNames |->
                        [k \in ClassKindSet |->
                            IF k \in present
                            THEN [exists |-> TRUE, owner |-> <<1>>,
                                  attrs |-> ClassTemplate(c, classes[c],
                                                          DefaultLabel, k)]
                            ELSE Absent]]
    /\ owned = <<>>
    /\ call = Idle
    /\ extWrites = 0
    /\ userOps = 0
    /\ kernel = <<>>
    /\ reviews = <<>>
    /\ last = [op |-> "init"]

\* A pass of the class reconciler; utils.GetOvercommitLabel at its top
\* returns an error when there is no Overcommit to read the key from.
OrphanPass(c, fault) ==
    /\ overcommit.exists \/ fault = "label"
    /\ ClassReconcilePass(c, fault)

NextOrphan ==
    \/ \E c \in ClassNames : UserDeleteClass(c)
    \/ UserDeleteOvercommit
    \/ \E c \in ClassNames,
          fault \in {"none", "label", "delService", "delWebhook", "update"} :
          OrphanPass(c, fault)

SpecOrphan ==
    /\ InitOrphan
    /\ [][NextOrphan]_vars
    /\ WF_vars(\E c \in ClassNames : OrphanPass(c, "none"))

\* C33: every class whose deletion timestamp is set eventually has
\* overcommitclass.finalizer removed, also when the Overcommit has been
\* deleted before.
C33_DeletionCompletes ==
    \A c \in ClassNames :
        (classes[c].exists /\ classes[c].deletionTimestamp) ~>
            (~classes[c].exists \/ ClassFinalizer \notin classes[c].finalizers)

\* The same while the Overcommit is there to load the key from.
DeletionCompletesWithOvercommit ==
    \A c \in ClassNames :
        (classes[c].exists /\ classes[c].deletionTimestamp) ~>
            \/ ~classes[c].exists
            \/ ClassFinalizer \notin classes[c].finalizers
            \/ ~overcommit.exists

\* C34: cleanupResources called on a class of which any subset of the four
\* objects is gone already deletes the others and returns success, and the
\* deletion pass then takes the finalizer off (every API call of the pass
\* succeeding and the Overcommit, whose label the cleanup loads, existing).
C34_CleanupReentrant ==
    \A c \in ClassNames :
        /\ (classes[c].exists /\ IsBeingDeleted(classes[c]) /\ overcommit.exists) =>
              LET cleaned == cleanupResources(managed[c], overcommit, "none")
                  out == ClassReconcile(rev, c, classes[c], managed[c],
                                        overcommit, "none")
              IN /\ cleaned.err = "none"
                 /\ \A k \in ClassKindSet : ~cleaned.objs[k].exists
                 /\ out.err = "none"
                 /\ \A k \in ClassKindSet : ~out.objs[k].exists
                 /\ ~out.class.exists \/ ClassFinalizer \notin out.class.finalizers
        /\ (ClassPassed(c) /\ last.before.deleting /\ last.err = "none"
                /\ last.phase = "removeFinalizer") =>
              /\ \A k \in ClassKindSet : ~managed[c][k].exists
              /\ ~classes[c].exists \/ ClassFinalizer \notin classes[c].finalizers

\* A deletion pass that found only part of the objects has succeeded.
C34_Witness ==
    /\ ClassPassed("gold")
    /\ last.before.deleting
    /\ last.phase = "removeFinalizer"
    /\ last.err = "none"
    /\ last.existed \notin {{}, ClassKindSet}
    /\ \A k \in ClassKindSet : ~managed["gold"][k].exists
    /\ ~classes["gold"].exists

\* What the class pass that just ended did to the managed objects of c.
WroteManaged(c) ==
    \E k \in ClassKindSet :
        managed'[c][k].exists /\ managed'[c][k] # managed[c][k]

HasCorrectOwner(class, oc) ==
    \E ownerRef \in class.ownerReferences :
        ownerRef.UID = oc.uid /\ ownerRef.Kind = "Overcommit"

\* C35: a class pass creates or updates a managed object of c only when the
\* class it fetched carries the finalizer already; the pass that adds the
\* finalizer and the pass that sets the owner reference persist the class
\* alone and leave every managed object as it was.
C35_UpsertOnlyAfterFinalizer ==
    [][\A c \in ClassNames :
          (last'.op = "ClassReconcile" /\ last'.name = c) =>
              /\ WroteManaged(c) =>
                    /\ classes[c].exists
                    /\ ~classes[c].deletionTimestamp
                    /\ ClassFinalizer \in classes[c].finalizers
                    /\ HasCorrectOwner(classes[c], overcommit)
              /\ (last'.phase = "addFinalizer" /\ last'.err = "none") =>
                    /\ managed' = managed
                    /\ classes'[c] = [classes[c] EXCEPT
                                         !.finalizers = @ \cup {ClassFinalizer}]
                    /\ ClassFinalizer \notin classes[c].finalizers
              /\ (last'.phase = "owner" /\ last'.err = "none") =>
                    /\ managed' = managed
                    /\ classes'[c] = [classes[c] EXCEPT
                                         !.ownerReferences =
                                             SetControllerReference(@, overcommit)]
                    /\ ~HasCorrectOwner(classes[c], overcommit)]_vars

\* A pass on a class that carried the finalizer has created the four
\* objects.
C35_Witness ==
    /\ ClassPassed("gold")
    /\ last.phase = "done"
    /\ last.existed = {}
    /\ ClassFinalizer \in last.before.finalizers
    /\ \A k \in ClassKindSet : managed["gold"][k].exists

(***************************************************************************)
(* The singleton reconciler under requests of any name, with the           *)
(* Overcommit deleted and created again around its passes                   *)
(***************************************************************************)

\* "clusterKey := types.NamespacedName{Name: "cluster", Namespace: ""}"
clusterKey == "cluster"

\* Names a request can carry.  Only the reserved name is ever the name of an
\* existing Overcommit (the validator rejects any other, spec.md 3).
RequestNames == {clusterKey, "other"}

\* Reconcile for the request called req: r.Get(ctx, req.NamespacedName, ...)
\* finds the singleton under the reserved name and nothing under another.
KeyedPass(req, fault) ==
    IF req = overcommit.name
    THEN SingletonPass(fault)
    ELSE LET oc == [NoOvercommit EXCEPT !.name = req]
             out == SingletonReconcile(oc, owned, fault)
         IN /\ call.pc = "idle"
            /\ fault.at \in {"none", "label", "get"}
            /\ last' = PassRecord(out, oc, owned, fault)
            /\ UNCHANGED <<now, kernel, reviews, classVars, overcommit, owned, call,
                           extWrites, userOps>>

\* The user creates the Overcommit again: a new object under the same name.
UserCreateOvercommit ==
    /\ userOps < MaxUserOps
    /\ ~overcommit.exists
    /\ overcommit' = [NoOvercommit EXCEPT !.exists = TRUE,
                                          !.uid = 101 + userOps]
    /\ call' = Outdated(call)
    /\ userOps' = userOps + 1
    /\ last' = [op |-> "UserCreateOvercommit"]
    /\ UNCHANGED <<now, kernel, reviews, classVars, owned, extWrites>>

InitKeyed ==
    /\ now = 1
    /\ rev = "part_001"
    /\ overcommit = [NoOvercommit EXCEPT !.exists = TRUE, !.uid = 100]
    /\ classes = [c \in ClassNames |-> NoClass]
    /\ managed = [c \in ClassNames |-> [k \in ClassKindSet |-> Absent]]
    /\ owned = [t \in ResourceTypeSet |-> Absent]
    /\ call = Idle
    /\ extWrites = 0
    /\ userOps = 0
    /\ kernel = <<>>
    /\ reviews = <<>>
    /\ last = [op |-> "init"]

NextKeyed ==
    \/ \E req \in RequestNames, at \in {"none", "get", "pod-service"} :
          KeyedPass(req, [at |-> at, err |-> "other"])
    \/ \E failed \in BOOLEAN : StatusFetch(failed)
    \/ \E failed \in BOOLEAN : StatusUpdate(failed)
    \/ UserDeleteOvercommit
    \/ UserCreateOvercommit

SpecKeyed == InitKeyed /\ [][NextKeyed]_vars

MaxNow == 3

\* The conditions handed to setCondition: those updateOvercommitStatus
\* builds for every count of ready rows, a reason or a message changed
\* alone, and one of another type, all without time.
NewConditions ==
    {[Type |-> type, Status |-> status, Reason |-> reason, Message |-> message,
      LastTransitionTime |-> time] :
        type \in {"ResourcesReady", "Available"},
        status \in {"True", "False"},
        reason \in {"AllResourcesReady", "ResourcesNotReady"},
        message \in {"All 10 managed resources are ready",
                     "9 of 10 resources are ready"},
        time \in {0}}

Tick ==
    /\ now < MaxNow
    /\ now' = now + 1
    /\ last' = [op |-> "Tick"]
    /\ UNCHANGED <<kernel, reviews, rev, overcommit, classes, managed, owned,
                   call, extWrites, userOps>>

\* One call of setCondition; the caller has left the time unset or, as
\* updateOvercommitStatus does, has read the clock into it.
SetCondition(condition, stamped) ==
    LET newCondition == IF stamped
                        THEN [condition EXCEPT !.LastTransitionTime = now]
                        ELSE condition
    IN /\ overcommit' = [overcommit EXCEPT
                            !.status.Conditions = setCondition(@, newCondition)]
       /\ last' = [op |-> "setCondition", newCondition |-> newCondition,
                   before |-> overcommit.status.Conditions, at |-> now]
       /\ UNCHANGED <<now, kernel, reviews, rev, classes, managed, owned, call,
                      extWrites, userOps>>

InitCondition ==
    /\ now = 1
    /\ rev = "part_001"
    /\ \E conditions \in InitialConditions :
          overcommit = [NoOvercommit EXCEPT !.exists = TRUE, !.uid = 100,
                                            !.status.Conditions = conditions]
    /\ classes = [c \in ClassNames |-> NoClass]
    /\ managed = [c \in ClassNames |-> [k \in ClassKindSet |-> Absent]]
    /\ owned = [t \in ResourceTypeSet |-> Absent]
    /\ call = Idle
    /\ extWrites = 0
    /\ userOps = 0
    /\ kernel = <<>>
    /\ reviews = <<>>
    /\ last = [op |-> "init"]

NextCondition ==
    \/ Tick
    \/ \E condition \in NewConditions, stamped \in BOOLEAN :
          SetCondition(condition, stamped)

SpecCondition == InitCondition /\ [][NextCondition]_vars

\* The first condition of the given type.
Stored(conditions, type) ==
    conditions[CHOOSE j \in 1..Len(conditions) :
                   /\ conditions[j].Type = type
                   /\ \A k \in 1..(j - 1) : conditions[k].Type # type]

HasType(conditions, type) ==
    \E j \in 1..Len(conditions) : conditions[j].Type = type

SetOnStored ==
    /\ last.op = "setCondition"
    /\ last.newCondition.Type = "ResourcesReady"
    /\ HasType(last.before, "ResourcesReady")

\* C37: a setCondition call changes the stored LastTransitionTime of the
\* ResourcesReady condition only when its new Status differs from the
\* stored one; a call that changes Reason or Message alone keeps the stored
\* time, and a call with the same Status, Reason and Message leaves the
\* stored conditions as they were.
C37_TransitionTimeFollowsStatus ==
    SetOnStored =>
        LET old == Stored(last.before, "ResourcesReady")
            cur == Stored(overcommit.status.Conditions, "ResourcesReady")
            new == last.newCondition
        IN /\ cur.LastTransitionTime # old.LastTransitionTime =>
                  new.Status # old.Status
           /\ new.Status = old.Status =>
                  /\ cur.LastTransitionTime = old.LastTransitionTime
                  /\ cur.Reason = new.Reason
                  /\ cur.Message = new.Message
           /\ (/\ new.Status = old.Status
               /\ new.Reason = old.Reason
               /\ new.Message = old.Message) =>
                  overcommit.status.Conditions = last.before
           /\ Len(overcommit.status.Conditions) = Len(last.before)

\* A call made after the clock moved on changed the reason alone and the
\* stored time stayed.
C37_Witness ==
    /\ SetOnStored
    /\ last.newCondition.Status = Stored(last.before, "ResourcesReady").Status
    /\ last.newCondition.Reason # Stored(last.before, "ResourcesReady").Reason
    /\ last.newCondition.LastTransitionTime = last.at
    /\ last.at > Stored(last.before, "ResourcesReady").LastTransitionTime
    /\ Stored(overcommit.status.Conditions, "ResourcesReady").LastTransitionTime
           = Stored(last.before, "ResourcesReady").LastTransitionTime
    /\ Stored(overcommit.status.Conditions, "ResourcesReady").Reason
           = last.newCondition.Reason

(***************************************************************************)
(* updateOvercommitStatus called again and again on a status that starts   *)
(* empty, over a passing clock                                              *)
(***************************************************************************)

\* One call of updateOvercommitStatus whose API write succeeds; readable is
\* the set of resource types whose Get returned no error.
UpdateStatus(readable) ==
    /\ overcommit' = updateOvercommitStatus(overcommit, readable)
    /\ last' = [op |-> "updateOvercommitStatus", readable |-> readable,
                before |-> overcommit.status]
    /\ UNCHANGED <<now, kernel, reviews, rev, classes, managed, owned, call,
                   extWrites, userOps>>

InitRows ==
    /\ now = 1
    /\ rev = "part_001"
    /\ overcommit = [NoOvercommit EXCEPT !.exists = TRUE, !.uid = 100]
    /\ classes = [c \in ClassNames |-> NoClass]
    /\ managed = [c \in ClassNames |-> [k \in ClassKindSet |-> Absent]]
    /\ owned = [t \in ResourceTypeSet |-> Absent]
    /\ call = Idle
    /\ extWrites = 0
    /\ userOps = 0
    /\ kernel = <<>>
    /\ reviews = <<>>
    /\ last = [op |-> "init"]

\* The reads of a call succeed for all types, for none, for all but one or
\* for one alone.
NextRows ==
    \/ Tick
    \/ \E readable \in {ResourceTypeSet, {}}
                          \cup {ResourceTypeSet \ {t} : t \in ResourceTypeSet}
                          \cup {{t} : t \in ResourceTypeSet} :
          UpdateStatus(readable)

SpecRows == InitRows /\ [][NextRows]_vars

ConditionsOfType(conditions, type) ==
    {j \in 1..Len(conditions) : conditions[j].Type = type}

\* C38: from a status without conditions, after any sequence of
\* updateOvercommitStatus calls the status holds exactly one ResourcesReady
\* condition, and the rows are the ten resource kinds in their fixed order
\* whichever reads succeeded.
C38_OneConditionTenRows ==
    /\ Cardinality(ConditionsOfType(overcommit.status.Conditions,
                                    "ResourcesReady")) <= 1
    /\ last.op = "updateOvercommitStatus" =>
          /\ Cardinality(ConditionsOfType(overcommit.status.Conditions,
                                          "ResourcesReady")) = 1
          /\ Len(overcommit.status.Conditions) = 1
          /\ Len(overcommit.status.Resources) = 10
          /\ \A i \in 1..Len(resourceTypes) :
                /\ overcommit.status.Resources[i].Name
                       = ResourceName(resourceTypes[i])
                /\ overcommit.status.Resources[i].Ready
                       <=> resourceTypes[i] \in last.readable

\* A later call whose reads failed for all but one resource, on a status an
\* earlier call had filled differently.
C38_Witness ==
    /\ last.op = "updateOvercommitStatus"
    /\ Cardinality(last.readable) = 1
    /\ Len(last.before.Conditions) = 1
    /\ last.before.Conditions[1].Status = "True"
    /\ last.before.Resources # overcommit.status.Resources
    /\ overcommit.status.Conditions[1].LastTransitionTime
           > last.before.Conditions[1].LastTransitionTime

=============================================================================
